---- MODULE Spec2Model ----
(***************************************************************************)
(* A model of `pls` (fisherdarling/pls): one invocation of the binary.     *)
(*                                                                         *)
(*   main (bin/main.rs)  : Cli::parse, Cli::format, Command::run           *)
(*   parse   (commands/parse.rs)   : read the buffer, scan its PEM blocks, *)
(*                                   classify, decode, normalize, print    *)
(*   connect (commands/connect.rs) : parse_host, TCP connect, TLS          *)
(*                                   handshake, result extraction, print   *)
(*                                                                         *)
(* Two further entry points of the repository are modelled beside the two  *)
(* commands: components::print_pems (components/mod.rs), the four-kind     *)
(* variant of the parse loop, and the earlier certificate-only parse       *)
(* command (args/parse.rs with x509/parser.rs).                            *)
(*                                                                         *)
(* The conversions of the normalization (x509.rs) and the scanners         *)
(* (pem/parser.rs, x509_parser.rs, x509/parser.rs) are also run one by     *)
(* one on inputs of their own: SpecSans, SpecNormalize, SpecScan.          *)
(*                                                                         *)
(* The cryptographic library (boring) and the url crate are external: a    *)
(* DER byte string is modelled by its encoding and the object it encodes,  *)
(* base64 text by the bytes it decodes to, and each library call by the    *)
(* encodings it accepts or writes.                                         *)
(***************************************************************************)
EXTENDS Integers, Sequences, FiniteSets, TLC

\* Largest number of PEM blocks in an input buffer.
MaxBlocks == 2

VARIABLES
    pc,            \* position of the invocation
    cli,           \* the global flags [text, json, pem] (args.rs:25-36)
    tty,           \* whether stdout is a terminal
    format,        \* the negotiated Format, "unset" before Cli::format
    command,       \* the entry point taken
    data,          \* the input buffer of the parse paths
    idx,           \* the block the parse loop is at (1-based)
    parse_result,  \* ParseResult: certs, csrs, public_keys, private_keys
    der_attempted, \* whether parse_der was called on the whole buffer
    stdout,        \* what was written to standard output, in order
    log,           \* the tracing events emitted, in order
    args,          \* the Connect arguments: host, chain, rpk, curves, pqc
    hostname,      \* parse_host's hostname
    addr,          \* parse_host's socket address
    dns_log,       \* the answers the system resolver gave, in order
    inflight,      \* the network operations in progress
    trace,         \* the begin and the end of every stage, in order
    connector,     \* the SslConnector as configured
    tls,           \* the established TLS session
    conn,          \* the Connection built from the session
    certs,         \* the certificates extracted from the session
    general_names, \* a subject-alternative-name stack handed to Sans::from
    sans,          \* the Sans made of it
    object,        \* a PEM block handed to the normalization, and the time
                   \* it is handed over
    normal,        \* what the normalization made of it
    buffer,        \* the bytes handed to the scanners
    raw_pems,      \* what extract_raw_pems yields on it
    old_slices,    \* the slices x509_parser.rs parse_pem takes of it
    new_slices     \* the slices x509/parser.rs parse_pem takes of it

connVars ==
    <<args, hostname, addr, dns_log, inflight, trace, connector, tls, conn,
      certs>>

\* The values and results of the conversions that are checked one by one,
\* outside an invocation.
scanVars == <<buffer, raw_pems, old_slices, new_slices>>

unitVars == <<general_names, sans, object, normal, scanVars>>

\* The state of an invocation.
runVars == <<pc, cli, tty, format, command, data, idx, parse_result,
             der_attempted, stdout, log, connVars>>

vars == <<runVars, unitVars>>

-----------------------------------------------------------------------------
(* Bytes: DER and base64 *)

\* The DER encodings the library reads or writes, and bytes that are no DER.
Encodings ==
    {"x509", "x509req", "spki", "pkcs1pub", "pkcs1priv", "pkcs8", "sec1"}

\* What a DER byte string encodes: the object, told from every other by
\* `id`, and the algorithm of its key (of the subject's key for a certificate
\* or a CSR).
Obj(id, alg) == [id |-> id, alg |-> alg]

NoObj == Obj(0, "none")

Der(enc, obj) == [enc |-> enc, obj |-> obj]

\* base64 text that decodes to `der`, and text that is no base64.
B64(der) == [valid |-> TRUE, der |-> der]

InvalidB64 == [valid |-> FALSE, der |-> Der("garbage", NoObj)]

Ok(v) == [ok |-> TRUE, value |-> v]

Err(why) == [ok |-> FALSE, value |-> why]

\* boring::base64::decode_block
decode_block(payload) ==
    IF payload.valid THEN Ok(payload.der) ELSE Err("base64")

-----------------------------------------------------------------------------
(* The external library: decoding per entity kind, and writing PEM *)

\* X509::from_der, X509Req::from_der, PKey::public_key_from_der,
\* Rsa::public_key_from_der, Rsa::private_key_from_der,
\* PKey::private_key_from_der (d2i_AutoPrivateKey: PKCS#8 and the
\* key-type specific formats), EcKey::private_key_from_der.
Accepts(label) ==
    CASE label = "Certificate" -> {"x509"}
      [] label = "CertificateRequest" -> {"x509req"}
      [] label = "PublicKey" -> {"spki"}
      [] label = "RsaPublicKey" -> {"pkcs1pub"}
      [] label = "RsaPrivateKey" -> {"pkcs1priv"}
      [] label = "PrivateKey" -> {"pkcs8", "pkcs1priv", "sec1"}
      [] label = "ECPrivateKey" -> {"sec1"}
      [] OTHER -> {}

\* ParsedPem's variant for a label.
VariantOf(label) ==
    CASE label = "Certificate" -> "Cert"
      [] label = "CertificateRequest" -> "CertReq"
      [] label = "PublicKey" -> "PublicKey"
      [] label = "RsaPublicKey" -> "RsaPublicKey"
      [] label = "RsaPrivateKey" -> "RsaPrivateKey"
      [] label = "PrivateKey" -> "PrivateKey"
      [] label = "ECPrivateKey" -> "ECPrivateKey"
      [] OTHER -> "none"

\* What stands between the base64 characters of a block: after the BEGIN
\* marker, inside the payload, before the END marker. "\n" is a newline and
\* "\\n" the two characters backslash and n.
Fill(lead, mid, trail) == [lead |-> lead, mid |-> mid, trail |-> trail]

\* The layout the library writes: lines ended by a newline.
Lines == Fill(<<"\n">>, <<"\n">>, <<"\n">>)

\* A PEM text: its BEGIN label, its base64 payload, and its layout.
PemText(label, der) == [label |-> label, payload |-> B64(der), fill |-> Lines]

\* X509::to_pem
X509_to_pem(obj) == PemText("CERTIFICATE", Der("x509", obj))

\* X509Req::to_pem
X509Req_to_pem(obj) == PemText("CERTIFICATE REQUEST", Der("x509req", obj))

\* PKey::public_key_to_pem
public_key_to_pem(obj) == PemText("PUBLIC KEY", Der("spki", obj))

\* PKey::private_key_to_pem_pkcs8
private_key_to_pem_pkcs8(obj) == PemText("PRIVATE KEY", Der("pkcs8", obj))

-----------------------------------------------------------------------------
(* pem/parser.rs *)

\* Label::from_str on the label trimmed and in upper case.
Label_from_str_Normalized(s) ==
    CASE s \in {"CERTIFICATE", "certificate", "CERTIFICATE "} -> "Certificate"
      [] s = "CERTIFICATE REQUEST" -> "CertificateRequest"
      [] s = "PUBLIC KEY" -> "PublicKey"
      [] s = "RSA PUBLIC KEY" -> "RsaPublicKey"
      [] s = "RSA PRIVATE KEY" -> "RsaPrivateKey"
      [] s = "PRIVATE KEY" -> "PrivateKey"
      [] s = "EC PRIVATE KEY" -> "ECPrivateKey"
      [] OTHER -> "Unknown"

\* impl FromStr for Label
Label_from_str(s) ==
    CASE s = "CERTIFICATE" -> "Certificate"
      [] s = "CERTIFICATE REQUEST" -> "CertificateRequest"
      [] s = "PUBLIC KEY" -> "PublicKey"
      [] s = "RSA PUBLIC KEY" -> "RsaPublicKey"
      [] s = "RSA PRIVATE KEY" -> "RsaPrivateKey"
      [] s = "PRIVATE KEY" -> "PrivateKey"
      [] s = "EC PRIVATE KEY" -> "ECPrivateKey"
      [] OTHER -> "Unknown"

\* The text between the two markers of a block: "b1" and "b2" stand for the
\* two halves of the base64 characters of the payload.
between_markers(block) ==
    block.fill.lead \o <<"b1">> \o block.fill.mid \o <<"b2">>
    \o block.fill.trail

\* PEM_REGEX's group cert_data: the text between the markers without the one
\* newline or escaped newline that `(?:\n|\\n)?` takes after the BEGIN marker
\* and before the END marker.
cert_data(block) ==
    LET text == between_markers(block)
        from == IF text[1] \in {"\n", "\\n"} THEN 2 ELSE 1
        to == IF text[Len(text)] \in {"\n", "\\n"}
              THEN Len(text) - 1 ELSE Len(text)
    IN  SubSeq(text, from, to)

\* REMOVE_WHITESPACE with the whitespace characters alone: `\s+`.
REMOVE_WHITESPACE_SpaceOnly(text) ==
    SelectSeq(text, LAMBDA t : t \notin {" ", "\t", "\n", "\r"})

\* REMOVE_WHITESPACE.replace_all(cert_data, b""): `(?:\s|\\n)+`.
REMOVE_WHITESPACE(text) ==
    SelectSeq(text, LAMBDA t : t \notin {" ", "\t", "\n", "\r", "\\n"})

\* The closure of extract_raw_pems on one regex match: the label of the BEGIN
\* marker and the base64-decoded payload, or the base64 error. What is left
\* of the cleaned text beside the payload's characters is no base64.
extract_raw_pem(block) ==
    LET cleaned == REMOVE_WHITESPACE(cert_data(block))
        decoded == IF cleaned = <<"b1", "b2">>
                   THEN decode_block(block.payload)
                   ELSE Err("base64")
    IN  IF decoded.ok
        THEN Ok([label |-> block.label, data |-> decoded.value])
        ELSE Err("base64")

\* impl TryFrom<RawPem> for Pem
Pem_try_from(raw) ==
    LET label == Label_from_str(raw.label)
    IN  IF label = "Unknown" THEN Err("unknown label")
        ELSE IF raw.data.enc \in Accepts(label)
        THEN Ok([label |-> label, variant |-> VariantOf(label),
                 obj |-> raw.data.obj])
        ELSE Err("der")

\* parse_pems on one block: extract_raw_pems(data).flatten().map(Pem::try_from)
\* yields nothing for a base64 failure and a Result<Pem> otherwise.
parse_pem_item(block) ==
    LET raw == extract_raw_pem(block)
    IN  IF raw.ok THEN <<Pem_try_from(raw.value)>> ELSE <<>>

-----------------------------------------------------------------------------
(* x509.rs: the normalized model *)

\* PKey::ec_key: the EC key of a PKey whose id is EC, an error for any other.
ec_key(alg) == IF alg = "EC" THEN Ok("EC") ELSE Err("expecting an ec key")

\* The match on key.id() of From<PKey<Public>> and From<PKey<Private>>: the
\* variant, or the panic of an unwrap or of the last arm.
key_kind(alg) ==
    CASE alg = "RSA" -> Ok("RSA")
      [] alg = "DSA" -> Ok("DSA")
      [] alg = "EC" -> IF ec_key(alg).ok THEN Ok("EC") ELSE Err("unwrap")
      [] alg = "ED25519" ->
            IF ec_key(alg).ok THEN Ok("Ed25519") ELSE Err("unwrap")
      [] alg = "ED448" ->
            IF ec_key(alg).ok THEN Ok("Ed448") ELSE Err("unwrap")
      [] OTHER -> Err("unreachable")

\* Whether the normalization of an object returns: it panics where key_kind
\* panics.
Normalizes(obj) == key_kind(obj.alg).ok

Entity(kind, obj, pem) ==
    [kind |-> kind, obj |-> obj, pem |-> pem,
     key |-> key_kind(obj.alg).value,
     valid |-> "unset", verify_result |-> "unset"]

\* impl From<X509> for SimpleCert
SimpleCert_from(obj) == Entity("cert", obj, X509_to_pem(obj))

\* impl From<X509Req> for SimpleCsr
SimpleCsr_from(obj) == Entity("csr", obj, X509Req_to_pem(obj))

\* impl From<PKey<Public>> for SimplePublicKey
SimplePublicKey_from(obj) == Entity("public_key", obj, public_key_to_pem(obj))

\* impl From<PKey<Private>> for SimplePrivateKey, and From<Rsa<Private>>,
\* which goes through PKey::from_rsa.
SimplePrivateKey_from(obj) ==
    Entity("private_key", obj, private_key_to_pem_pkcs8(obj))

EmptyResult ==
    [certs |-> <<>>, csrs |-> <<>>, public_keys |-> <<>>, private_keys |-> <<>>]

\* A GeneralName of a subject-alternative-name extension: its kind, its value
\* (told from every other entry's by `value`), and the number of bytes of an
\* iPAddress (0 for any other kind).
GeneralName(kind, value, len) == [kind |-> kind, value |-> value, len |-> len]

\* impl From<GeneralName> for San: dnsname(), ipaddress(), email() and uri()
\* in this order; an address of 4 bytes is an IPv4 address and any other goes
\* through <[u8; 16]>::try_from(ip).unwrap(); a name of any other kind reaches
\* unreachable!().
San_from(value) ==
    CASE value.kind = "dns" -> Ok([kind |-> "dns", value |-> value.value])
      [] value.kind = "ip" ->
            IF value.len \in {4, 16}
            THEN Ok([kind |-> "ip", value |-> value.value])
            ELSE Err("unwrap")
      [] value.kind = "email" -> Ok([kind |-> "email", value |-> value.value])
      [] value.kind = "uri" -> Ok([kind |-> "uri", value |-> value.value])
      [] OTHER -> Err("unreachable")

\* Sans::default()
EmptySans == [dns |-> <<>>, ip |-> <<>>, email |-> <<>>, uri |-> <<>>]

\* impl From<Vec<San>> for Sans: the loop over the entries, each pushed on the
\* vector of its kind.
RECURSIVE Sans_from(_, _)
Sans_from(entries, acc) ==
    IF entries = <<>> THEN acc
    ELSE Sans_from(Tail(entries),
                   [acc EXCEPT ![Head(entries).kind] =
                       Append(@, Head(entries).value)])

\* impl From<Stack<GeneralName>> for Sans: San::from on every name, then
\* Sans::from on the vector; a panic of San::from is the panic of the whole.
Sans_from_stack(stack) ==
    IF \E i \in 1..Len(stack) : ~San_from(stack[i]).ok
    THEN [status |-> "panic", value |-> EmptySans]
    ELSE [status |-> "ok",
          value |-> Sans_from([i \in 1..Len(stack) |-> San_from(stack[i]).value],
                              EmptySans)]

\* A string of hex digits is a sequence of characters, a byte a number in
\* 0..255.
HexDigits ==
    <<"0", "1", "2", "3", "4", "5", "6", "7", "8", "9", "a", "b", "c", "d",
      "e", "f">>

\* hex::encode: two lower-case digits for every byte.
hex_encode(bytes) ==
    [i \in 1..(2 * Len(bytes)) |->
        IF i % 2 = 1 THEN HexDigits[(bytes[(i + 1) \div 2] \div 16) + 1]
        ELSE HexDigits[(bytes[i \div 2] % 16) + 1]]

\* A BigNum: its sign and its magnitude, the big-endian bytes without a
\* leading zero byte (what BigNumRef::to_vec returns).
BigNum(neg, mag) == [neg |-> neg, mag |-> mag]

\* BigNumRef::to_hex_str (BN_bn2hex): "-" for a negative number, "0" for
\* zero, and two lower-case digits for every byte of the magnitude.
to_hex_str(bn) ==
    (IF bn.neg THEN <<"-">> ELSE <<>>)
    \o (IF bn.mag = <<>> THEN <<"0">> ELSE hex_encode(bn.mag))

\* AsRef<[u8]> of the string to_hex_str returns: the ASCII code of every
\* character.
as_bytes(str) ==
    [i \in 1..Len(str) |->
        IF str[i] = "-" THEN 45
        ELSE LET n == CHOOSE k \in 0..15 : HexDigits[k + 1] = str[i]
             IN  IF n < 10 THEN 48 + n ELSE 87 + n]

\* The digest of the subject's public key in place of the certificate's.
X509_digest_KeyOnly(obj, md) ==
    LET Code(name, names) == CHOOSE k \in 1..Len(names) : names[k] = name
    IN  <<Code(md, <<"sha256", "sha1", "md5">>),
          Code(obj.alg, <<"RSA", "DSA", "EC", "ED25519", "ED448">>)>>

\* X509::digest(md): the digest of the DER encoding of the certificate. The
\* bytes stand for the hash: they differ where the digest or any part of the
\* encoding differs.
X509_digest(obj, md) ==
    LET Code(name, names) == CHOOSE k \in 1..Len(names) : names[k] = name
    IN  <<Code(md, <<"sha256", "sha1", "md5">>),
          Code(Der("x509", obj).enc, <<"x509">>),
          Der("x509", obj).obj.id,
          Code(Der("x509", obj).obj.alg,
               <<"RSA", "DSA", "EC", "ED25519", "ED448">>)>>

\* A hex-encoded field of the normalized model: its name, the raw bytes it
\* renders, and its text.
HexField(name, raw, text) == [name |-> name, raw |-> raw, text |-> text]

HexFields(names, raw, text) ==
    [i \in 1..Len(names) |-> HexField(names[i], raw, text)]

\* The hex fields of impl From<PKey<Public>> for SimplePublicKey; `n` stands
\* for every number and for the point of the key.
SimplePublicKey_hex(alg, n) ==
    CASE alg = "RSA" -> HexFields(<<"modulus">>, n.mag, hex_encode(n.mag))
      [] alg = "DSA" ->
            HexFields(<<"p", "q", "g", "key">>, n.mag, to_hex_str(n))
      [] alg = "EC" -> HexFields(<<"key">>, n.mag, hex_encode(n.mag))

\* The hex fields of impl From<PKey<Private>> for SimplePrivateKey.
SimplePrivateKey_hex(alg, n) ==
    CASE alg = "RSA" ->
            HexFields(<<"modulus">>, n.mag, hex_encode(n.mag))
            \o HexFields(<<"key", "p", "q">>, n.mag, to_hex_str(n))
      [] alg = "DSA" ->
            HexFields(<<"p", "q", "g", "pub_key", "key">>, n.mag,
                      to_hex_str(n))
      [] alg = "EC" ->
            HexFields(<<"pub_key">>, n.mag, hex_encode(n.mag))
            \o HexFields(<<"key">>, n.mag,
                         hex_encode(as_bytes(to_hex_str(n))))

\* Fingerprints of impl From<X509> for SimpleCert.
Fingerprints(obj) ==
    [md \in {"sha256", "sha1", "md5"} |-> hex_encode(X509_digest(obj, md))]

\* The hex fields of impl From<X509> for SimpleCert: the key identifiers, the
\* serial, the signature, the fingerprints, and those of the public key.
SimpleCert_hex(obj, n) ==
    HexFields(<<"ski", "aki", "signature">>, n.mag, hex_encode(n.mag))
    \o HexFields(<<"serial">>, n.mag, to_hex_str(n))
    \o [i \in 1..3 |->
          HexField(<<"sha256", "sha1", "md5">>[i],
                   X509_digest(obj, <<"sha256", "sha1", "md5">>[i]),
                   Fingerprints(obj)[<<"sha256", "sha1", "md5">>[i]])]
    \o SimplePublicKey_hex(obj.alg, n)

\* The hex fields of impl From<X509Req> for SimpleCsr.
SimpleCsr_hex(obj, n) ==
    HexFields(<<"signature">>, n.mag, hex_encode(n.mag))
    \o SimplePublicKey_hex(obj.alg, n)

\* not_after of every certificate, and impl From<&X509> for Validity:
\* expires_in is counted from Timestamp::now().
NotAfter == 10

Validity_from(obj, now) == [expires_in |-> NotAfter - now]

-----------------------------------------------------------------------------
(* commands/mod.rs *)

\* Format::from_args without `!pem` in print_json: off a terminal the pem flag
\* gives Json.
Format_from_args_PemUnchecked(text, json, pem, is_terminal) ==
    LET print_json == json \/ (~text /\ ~is_terminal)
    IN  IF print_json THEN "Json" ELSE IF pem THEN "Pem" ELSE "Text"

\* Format::from_args
Format_from_args(text, json, pem, is_terminal) ==
    LET print_json == json \/ (~text /\ ~pem /\ ~is_terminal)
    IN  IF print_json THEN "Json" ELSE IF pem THEN "Pem" ELSE "Text"

-----------------------------------------------------------------------------
(* components: what a print function writes to standard output *)

\* A JSON value: its type and its members (the elements of an array, the
\* fields of an object); NoJson for output that is no JSON.
NoJson == [type |-> "none", members |-> <<>>]

\* A Vec<T> written as T itself when it holds one element.
Json_vec_Unwrapped(v) ==
    IF Len(v) = 1 THEN [type |-> "object", members |-> v]
    ELSE [type |-> "array", members |-> v]

\* serde's Serialize for Vec<T>: a JSON array of the elements.
Json_vec(v) == [type |-> "array", members |-> v]

\* One write to standard output: its format, what it shows, the entities in
\* it, and for JSON the document.
Item(fmt, what, ents) ==
    [fmt |-> fmt, what |-> what, ents |-> ents, doc |-> NoJson]

\* println!("{}", serde_json::to_string_pretty(..)?)
JsonItem(what, ents, doc) ==
    [fmt |-> "json", what |-> what, ents |-> ents, doc |-> doc]

\* print_certs, print_csrs, print_public_keys, print_private_keys: one
\* rendered view (Text), one JSON array (Json), or the pem field of every
\* element in the order of the vector (Pem).
print_entities(ents, fmt, what) ==
    CASE fmt = "Text" -> <<Item("text", what, ents)>>
      [] fmt = "Json" -> <<JsonItem(what, ents, Json_vec(ents))>>
      [] fmt = "Pem" -> [i \in 1..Len(ents) |-> Item("pem", what, <<ents[i]>>)]

\* `if !v.is_empty() { print_x(v, format)?; }`
print_nonempty(ents, fmt, what) ==
    IF ents = <<>> THEN <<>> ELSE print_entities(ents, fmt, what)

\* The tail of Parse::run with the two print calls exchanged: the CSRs and
\* then the certificates.
Parse_output_CsrsFirst(res, fmt) ==
    IF fmt = "Json"
    THEN <<JsonItem("ParseResult", res.certs \o res.csrs,
                    [type |-> "object",
                     members |-> [certs |-> Json_vec(res.certs),
                                  csrs |-> Json_vec(res.csrs)]])>>
    ELSE print_nonempty(res.csrs, fmt, "csrs")
         \o print_nonempty(res.certs, fmt, "certs")

\* The tail of Parse::run: one JSON document of the ParseResult, an object
\* with the fields certs and csrs, or the certificates and then the CSRs.
Parse_output(res, fmt) ==
    IF fmt = "Json"
    THEN <<JsonItem("ParseResult", res.certs \o res.csrs,
                    [type |-> "object",
                     members |-> [certs |-> Json_vec(res.certs),
                                  csrs |-> Json_vec(res.csrs)]])>>
    ELSE print_nonempty(res.certs, fmt, "certs")
         \o print_nonempty(res.csrs, fmt, "csrs")

\* The tail of print_pems: the four vectors in the order certs, csrs,
\* public_keys, private_keys.
print_pems_output(res, fmt) ==
    IF fmt = "Json"
    THEN <<JsonItem("ParseResult",
                    res.certs \o res.csrs \o res.private_keys
                    \o res.public_keys,
                    [type |-> "object",
                     members |-> [certs |-> Json_vec(res.certs),
                                  csrs |-> Json_vec(res.csrs),
                                  private_keys |-> Json_vec(res.private_keys),
                                  public_keys |-> Json_vec(res.public_keys)]])>>
    ELSE print_nonempty(res.certs, fmt, "certs")
         \o print_nonempty(res.csrs, fmt, "csrs")
         \o print_nonempty(res.public_keys, fmt, "public_keys")
         \o print_nonempty(res.private_keys, fmt, "private_keys")

\* A tracing event: its level, what it reports, and the block it is about
\* (0 for an event about no block).
Log(level, what, block) == [level |-> level, what |-> what, block |-> block]

\* The tracing::info! at the head of print_certs, print_csrs,
\* print_public_keys and print_private_keys.
print_nonempty_log(ents, what) ==
    IF ents = <<>> THEN <<>> ELSE <<Log("info", "printing " \o what, 0)>>

\* The events of the tail of Parse::run: none for Json, those of the print
\* functions called otherwise.
Parse_output_log(res, fmt) ==
    IF fmt = "Json" THEN <<>>
    ELSE print_nonempty_log(res.certs, "certs")
         \o print_nonempty_log(res.csrs, "csrs")

\* The events of the tail of print_pems.
print_pems_output_log(res, fmt) ==
    IF fmt = "Json" THEN <<>>
    ELSE print_nonempty_log(res.certs, "certs")
         \o print_nonempty_log(res.csrs, "csrs")
         \o (IF res.public_keys = <<>> THEN <<>>
             ELSE <<Log("info", "public keys", 0)>>)
         \o print_nonempty_log(res.public_keys, "public_keys")
         \o print_nonempty_log(res.private_keys, "private_keys")

-----------------------------------------------------------------------------
(* Input buffers *)

\* The blocks a buffer is built from: BEGIN label and payload. Every
\* recognized label with a payload its decoder accepts, a PKCS#1 key under the
\* generic PRIVATE KEY label, and the three failures: a payload that is no
\* base64, DER that does not decode under its label, and an unknown label
\* (another letter case, a trailing space). The third component is the
\* algorithm of the key: RSA but for the SEC1 key, and for the certificate,
\* the public keys and the PKCS#8 keys of other algorithms after those.
BlockShapes ==
    { <<"CERTIFICATE", "x509", "RSA">>,
      <<"CERTIFICATE REQUEST", "x509req", "RSA">>,
      <<"PUBLIC KEY", "spki", "RSA">>,
      <<"RSA PUBLIC KEY", "pkcs1pub", "RSA">>,
      <<"RSA PRIVATE KEY", "pkcs1priv", "RSA">>,
      <<"PRIVATE KEY", "pkcs8", "RSA">>,
      <<"PRIVATE KEY", "pkcs1priv", "RSA">>,
      <<"EC PRIVATE KEY", "sec1", "EC">>,
      <<"CERTIFICATE", "invalid", "none">>,
      <<"CERTIFICATE", "garbage", "none">>,
      <<"certificate", "x509", "RSA">>,
      <<"CERTIFICATE ", "x509", "RSA">>,
      <<"CERTIFICATE", "x509", "ED25519">>,
      <<"PUBLIC KEY", "spki", "EC">>,
      <<"PUBLIC KEY", "spki", "ED25519">>,
      <<"PUBLIC KEY", "spki", "X25519">>,
      <<"PRIVATE KEY", "pkcs8", "DSA">>,
      <<"PRIVATE KEY", "pkcs8", "ED25519">> }

\* The block at position i: its payload encodes object i, so that every block
\* of a buffer carries its own bytes.
MkBlock(shape, i) ==
    [label |-> shape[1],
     payload |-> IF shape[2] = "invalid" THEN InvalidB64
                 ELSE B64(Der(shape[2], Obj(i, shape[3]))),
     fill |-> Lines]

BlockSeqs ==
    UNION { { [i \in 1..n |-> MkBlock(f[i], i)] : f \in [1..n -> BlockShapes] }
            : n \in 0..MaxBlocks }

\* The layouts of a buffer: one line (nothing between the markers but the
\* payload), lines, indented lines, JSON text with escaped newlines, and a
\* mix of carriage returns, tabs, spaces and escaped newlines.
Layouts ==
    { Fill(<<>>, <<>>, <<>>),
      Lines,
      Fill(<<"\n", " ", " ">>, <<"\n", " ", " ">>, <<"\n", " ", " ">>),
      Fill(<<"\\n">>, <<"\\n">>, <<"\\n">>),
      Fill(<<"\r", "\n">>, <<" ", "\\n", "\t">>, <<"\\n", "\n">>) }

\* The blocks `bs` written in the layout `l`.
Laid(bs, l) == [i \in 1..Len(bs) |-> [bs[i] EXCEPT !.fill = l]]

\* A buffer: its PEM blocks in source order, and what the buffer as a whole
\* is as DER ("text" for a buffer that is no DER at all). A raw DER buffer
\* holds no markers.
Buffers ==
    { [blocks |-> Laid(bs, l), whole |-> Der("text", NoObj)] :
        bs \in BlockSeqs, l \in Layouts }
    \cup { [blocks |-> <<>>, whole |-> Der(e, Obj(1, "RSA"))] :
             e \in {"x509", "x509req"} }

NoBuffer == [blocks |-> <<>>, whole |-> Der("none", NoObj)]

\* The DER bytes of the block an entity was decoded from.
SourceDer(buf, e) == buf.blocks[e.obj.id].payload.der

-----------------------------------------------------------------------------
(* bin/main.rs and args.rs *)

\* clap's conflicts_with: at most one of the three format flags is set.
CliFlags ==
    { f \in [text : BOOLEAN, json : BOOLEAN, pem : BOOLEAN] :
        Cardinality({k \in {"text", "json", "pem"} : f[k]}) <= 1 }

\* main: `tracing::debug!("args: ...")` and `let format = args.format();`
\* (Cli::format calls Format::from_args).
NegotiateFormat ==
    /\ pc = "start"
    /\ log' = Append(log, Log("debug", "args", 0))
    /\ format' = Format_from_args(cli.text, cli.json, cli.pem, tty)
    /\ pc' = "dispatch"
    /\ UNCHANGED <<cli, tty, command, data, idx, parse_result, der_attempted,
                   stdout>>
    /\ UNCHANGED connVars
    /\ UNCHANGED unitVars

\* Command::run for Command::Parse, up to the end of reading: the source is
\* reported, and the file or stdin is read into the buffer; a read error is
\* returned; a terminal on stdin is reported, prints the help and returns Ok.
ParseRead ==
    /\ pc = "dispatch"
    /\ command' = "parse"
    /\ \/ \E buf \in Buffers :
            /\ data' = buf
            /\ pc' = "parse_loop"
            /\ stdout' = stdout
            /\ log' = Append(log, Log("info", "parsing certificates", 0))
       \/ /\ pc' = "failed"
          /\ log' = Append(log, Log("info", "parsing certificates", 0))
          /\ UNCHANGED <<data, stdout>>
       \/ /\ pc' = "done"
          /\ stdout' = Append(stdout, Item("help", "help", <<>>))
          /\ log' = log \o <<Log("info", "parsing certificates", 0),
                             Log("error", "stdin is a TTY", 0)>>
          /\ data' = data
    /\ UNCHANGED <<cli, tty, format, idx, parse_result, der_attempted>>
    /\ UNCHANGED connVars
    /\ UNCHANGED unitVars

-----------------------------------------------------------------------------
(* commands/parse.rs: Parse::run *)

\* Vec::insert(0, e) in place of push.
Vec_push_Front(v, e) == <<e>> \o v

\* Vec::push
Vec_push(v, e) == Append(v, e)

\* One iteration of the loop with `?` on each item in place of flatten: the
\* first block that fails ends the command with its error.
ParseStep_FailFast ==
    /\ pc = "parse_loop"
    /\ idx <= Len(data.blocks)
    /\ LET item == parse_pem_item(data.blocks[idx])
       IN  IF item = <<>> \/ ~item[1].ok
           THEN /\ pc' = "failed"
                /\ UNCHANGED <<idx, parse_result>>
           ELSE LET pem == item[1].value
                IN  CASE pem.variant = "Cert" /\ Normalizes(pem.obj) ->
                           /\ parse_result' =
                                [parse_result EXCEPT !.certs =
                                    Append(@, SimpleCert_from(pem.obj))]
                           /\ idx' = idx + 1
                           /\ pc' = pc
                      [] pem.variant = "CertReq" /\ Normalizes(pem.obj) ->
                           /\ parse_result' =
                                [parse_result EXCEPT !.csrs =
                                    Append(@, SimpleCsr_from(pem.obj))]
                           /\ idx' = idx + 1
                           /\ pc' = pc
                      [] OTHER ->
                           /\ pc' = "panicked"
                           /\ UNCHANGED <<idx, parse_result>>
    /\ UNCHANGED <<cli, tty, format, command, data, der_attempted, stdout,
                   log>>
    /\ UNCHANGED connVars
    /\ UNCHANGED unitVars

\* One iteration of `for pem in parse_pems(&data).flatten()`: a block whose
\* base64 or classification or decoding fails is dropped by one of the two
\* flatten calls; a certificate or a CSR is normalized and pushed, or its
\* normalization panics; any other variant reaches `todo!()`.
ParseStep ==
    /\ pc = "parse_loop"
    /\ idx <= Len(data.blocks)
    /\ LET item == parse_pem_item(data.blocks[idx])
       IN  IF item = <<>> \/ ~item[1].ok
           THEN /\ idx' = idx + 1
                /\ UNCHANGED <<pc, parse_result>>
           ELSE LET pem == item[1].value
                IN  CASE pem.variant = "Cert" /\ Normalizes(pem.obj) ->
                           /\ parse_result' =
                                [parse_result EXCEPT !.certs =
                                    Vec_push(@, SimpleCert_from(pem.obj))]
                           /\ idx' = idx + 1
                           /\ pc' = pc
                      [] pem.variant = "CertReq" /\ Normalizes(pem.obj) ->
                           /\ parse_result' =
                                [parse_result EXCEPT !.csrs =
                                    Vec_push(@, SimpleCsr_from(pem.obj))]
                           /\ idx' = idx + 1
                           /\ pc' = pc
                      [] OTHER ->
                           /\ pc' = "panicked"
                           /\ UNCHANGED <<idx, parse_result>>
    /\ UNCHANGED <<cli, tty, format, command, data, der_attempted, stdout,
                   log>>
    /\ UNCHANGED connVars
    /\ UNCHANGED unitVars

\* After the loop: the output in the negotiated format, then Ok(()).
ParseOutput ==
    /\ pc = "parse_loop"
    /\ idx > Len(data.blocks)
    /\ stdout' = stdout \o Parse_output(parse_result, format)
    /\ log' = log \o Parse_output_log(parse_result, format)
    /\ pc' = "done"
    /\ UNCHANGED <<cli, tty, format, command, data, idx, parse_result,
                   der_attempted>>
    /\ UNCHANGED connVars
    /\ UNCHANGED unitVars

-----------------------------------------------------------------------------
(* components/mod.rs: print_pems(format, pems) *)

\* A call of print_pems with the Pems that parse_pems yields for a buffer
\* (the failed ones dropped, as Parse::run drops them).
PrintPemsCall ==
    /\ pc = "dispatch"
    /\ command' = "print_pems"
    /\ \E buf \in Buffers : data' = buf
    /\ pc' = "print_pems_loop"
    /\ UNCHANGED <<cli, tty, format, idx, parse_result, der_attempted, stdout,
                   log>>
    /\ UNCHANGED connVars
    /\ UNCHANGED unitVars

\* One iteration of `for pem in pems`: the Pem is reported; certificates,
\* CSRs, PrivateKey, RsaPrivateKey and PublicKey are normalized and pushed, or
\* the normalization panics; any other variant is logged as unsupported and
\* left out. A block that failed is no Pem and never reaches the loop.
PrintPemsStep ==
    /\ pc = "print_pems_loop"
    /\ idx <= Len(data.blocks)
    /\ LET item == parse_pem_item(data.blocks[idx])
           passed == item # <<>> /\ item[1].ok
           supported == passed
                        /\ item[1].value.variant \in
                              {"Cert", "CertReq", "PrivateKey", "RsaPrivateKey",
                               "PublicKey"}
       IN  log' = IF ~passed THEN log
                  ELSE IF supported
                  THEN Append(log, Log("debug", "parsing pem", idx))
                  ELSE log \o <<Log("debug", "parsing pem", idx),
                                Log("warn", "unsupported pem variant", idx)>>
    /\ LET item == parse_pem_item(data.blocks[idx])
           pem == item[1].value
           kept == item # <<>> /\ item[1].ok
                   /\ pem.variant \in {"Cert", "CertReq", "PrivateKey",
                                        "RsaPrivateKey", "PublicKey"}
       IN  IF kept /\ ~Normalizes(pem.obj)
           THEN /\ pc' = "panicked"
                /\ UNCHANGED <<idx, parse_result>>
           ELSE /\ parse_result' =
                      IF ~kept THEN parse_result
                      ELSE CASE pem.variant = "Cert" ->
                             [parse_result EXCEPT !.certs =
                                Vec_push(@, SimpleCert_from(pem.obj))]
                        [] pem.variant = "CertReq" ->
                             [parse_result EXCEPT !.csrs =
                                Vec_push(@, SimpleCsr_from(pem.obj))]
                        [] pem.variant \in {"PrivateKey", "RsaPrivateKey"} ->
                             [parse_result EXCEPT !.private_keys =
                                Vec_push(@, SimplePrivateKey_from(pem.obj))]
                        [] pem.variant = "PublicKey" ->
                             [parse_result EXCEPT !.public_keys =
                                Vec_push(@, SimplePublicKey_from(pem.obj))]
                /\ idx' = idx + 1
                /\ pc' = pc
    /\ UNCHANGED <<cli, tty, format, command, data, der_attempted, stdout>>
    /\ UNCHANGED connVars
    /\ UNCHANGED unitVars

PrintPemsOutput ==
    /\ pc = "print_pems_loop"
    /\ idx > Len(data.blocks)
    /\ stdout' = stdout \o print_pems_output(parse_result, format)
    /\ log' = log \o print_pems_output_log(parse_result, format)
    /\ pc' = "done"
    /\ UNCHANGED <<cli, tty, format, command, data, idx, parse_result,
                   der_attempted>>
    /\ UNCHANGED connVars
    /\ UNCHANGED unitVars

-----------------------------------------------------------------------------
(* x509/parser.rs and args/parse.rs: the certificate-only parse command *)

\* find_cert_boundries_raw: the blocks between a BEGIN CERTIFICATE and an
\* END CERTIFICATE marker, in source order.
find_cert_boundries_raw(buf) ==
    SelectSeq(buf.blocks, LAMBDA b : b.label = "CERTIFICATE")

\* clean_cert_lines: the ASCII whitespace filtered out, then every "\\n"
\* replaced by nothing.
clean_cert_lines(text) ==
    SelectSeq(SelectSeq(text, LAMBDA t : t \notin {" ", "\t", "\n", "\r"}),
              LAMBDA t : t # "\\n")

\* The closure of parse_pem on one block: the text between the markers
\* cleaned, base64, then X509::from_der.
legacy_parse_block(block) ==
    LET decoded == IF clean_cert_lines(between_markers(block)) = <<"b1", "b2">>
                   THEN decode_block(block.payload)
                   ELSE Err("base64")
    IN  IF ~decoded.ok THEN Err("base64")
        ELSE IF decoded.value.enc = "x509" THEN Ok(decoded.value.obj)
        ELSE Err("der")

\* parse_pem: collect::<Result<Vec<_>>>() of the closure over the blocks; the
\* first Err is the result.
parse_pem(buf) ==
    LET results == [i \in 1..Len(find_cert_boundries_raw(buf)) |->
                      legacy_parse_block(find_cert_boundries_raw(buf)[i])]
    IN  IF \E i \in 1..Len(results) : ~results[i].ok
        THEN Err("pem")
        ELSE Ok([i \in 1..Len(results) |-> results[i].value])

\* parse_der: X509::from_der on the whole buffer.
parse_der(buf) ==
    IF buf.whole.enc = "x509" THEN Ok(<<buf.whole.obj>>) ELSE Err("der")

\* parse_auto: parse_pem(data).or_else(|_| parse_der(data)); `der` tells
\* whether parse_der was called.
parse_auto(buf) ==
    IF parse_pem(buf).ok
    THEN [result |-> parse_pem(buf), der |-> FALSE]
    ELSE [result |-> parse_der(buf), der |-> TRUE]

\* The selection with print_text taken from the text flag alone.
legacy_output_TextFlagOnly(cs, json, text, is_terminal) ==
    LET print_json == json \/ (~text /\ ~is_terminal)
        print_text == text
    IN  IF print_json THEN <<JsonItem("certs", cs, Json_vec(cs))>>
        ELSE IF print_text THEN <<Item("text", "certs", cs)>>
        ELSE <<>>

\* The output selection of the earlier Parse::run and of args::print_certs.
legacy_output(cs, json, text, is_terminal) ==
    LET print_json == json \/ (~text /\ ~is_terminal)
        print_text == text \/ (~json /\ is_terminal)
    IN  IF print_json THEN <<JsonItem("certs", cs, Json_vec(cs))>>
        ELSE IF print_text THEN <<Item("text", "certs", cs)>>
        ELSE <<>>

\* args/parse.rs Parse::run, reading: this command has the flags json and
\* text of its own and no pem flag.
LegacyRead ==
    /\ pc = "start"
    /\ ~cli.pem
    /\ command' = "legacy_parse"
    /\ \E buf \in Buffers : data' = buf
    /\ pc' = "legacy_parse"
    /\ UNCHANGED <<cli, tty, format, idx, parse_result, der_attempted, stdout,
                   log>>
    /\ UNCHANGED connVars
    /\ UNCHANGED unitVars

\* args/parse.rs Parse::run from parse_auto on: `?` returns the error of
\* parse_auto, otherwise the certificates are normalized, which panics where
\* a key's normalization does, and printed.
LegacyParse ==
    /\ pc = "legacy_parse"
    /\ LET r == parse_auto(data)
       IN  /\ der_attempted' = r.der
           /\ IF ~r.result.ok
              THEN /\ pc' = "failed"
                   /\ UNCHANGED <<parse_result, stdout>>
              ELSE IF \E i \in 1..Len(r.result.value) :
                         ~Normalizes(r.result.value[i])
              THEN /\ pc' = "panicked"
                   /\ UNCHANGED <<parse_result, stdout>>
              ELSE LET cs == [i \in 1..Len(r.result.value) |->
                                 SimpleCert_from(r.result.value[i])]
                   IN  /\ parse_result' = [parse_result EXCEPT !.certs = cs]
                       /\ stdout' = stdout
                             \o legacy_output(cs, cli.json, cli.text, tty)
                       /\ pc' = "done"
    /\ UNCHANGED <<cli, tty, format, command, data, idx, log>>
    /\ UNCHANGED connVars
    /\ UNCHANGED unitVars

-----------------------------------------------------------------------------
(* commands/connect.rs: parse_host *)

\* A string is a sequence of tokens; ":" is always a token of its own, so
\* that splitting on ':' is splitting the sequence.
HostInputs ==
    { <<"1.2.3.4", ":", "443">>,
      <<"https", ":", "//", "example.com">>,
      <<"https", ":", "//", "example.com", ":", "8443">>,
      <<"http", ":", "//", "example.com">>,
      <<"example.com", ":", "8443">>,
      <<"example.com">>,
      <<"example.com", ":", "8443", ":", "9">>,
      <<"example.com", ":", "https">>,
      <<"1.2.3.4">>,
      <<":", ":", "1">> }

IpLiterals == {"1.2.3.4"}

DomainNames == {"example.com"}

\* str::parse::<u16>
parse_u16(s) ==
    IF Len(s) = 1 /\ s[1] \in {"443", "8443", "9", "1"}
    THEN Ok(CASE s[1] = "443" -> 443 [] s[1] = "8443" -> 8443
              [] s[1] = "9" -> 9 [] s[1] = "1" -> 1)
    ELSE Err("invalid digit")

SockAddr(ip, port) == [ip |-> ip, port |-> port]

NoAddr == SockAddr("none", 0)

\* str::parse::<SocketAddr>: an IP literal, one ':', a port.
parse_SocketAddr(s) ==
    IF Len(s) = 3 /\ s[1] \in IpLiterals /\ s[2] = ":"
       /\ parse_u16(<<s[3]>>).ok
    THEN Ok(SockAddr(s[1], parse_u16(<<s[3]>>).value))
    ELSE Err("invalid socket address")

\* str::parse::<Url>. scheme://host with an optional :port is a URL with a
\* host; any other text that starts with a name and ':' is a URL whose scheme
\* is that name and which has no host; text without a scheme is no URL.
Url_parse(s) ==
    IF Len(s) >= 4 /\ s[1] \in {"https", "http"} /\ s[2] = ":" /\ s[3] = "//"
       /\ s[4] \in DomainNames \cup IpLiterals
    THEN IF Len(s) = 4
         THEN Ok([scheme |-> s[1], host |-> s[4], port |-> 0])
         ELSE IF Len(s) = 6 /\ s[5] = ":" /\ parse_u16(<<s[6]>>).ok
         THEN Ok([scheme |-> s[1], host |-> s[4],
                  port |-> parse_u16(<<s[6]>>).value])
         ELSE Err("invalid port")
    ELSE IF Len(s) >= 2 /\ s[1] \in DomainNames /\ s[2] = ":"
    THEN Ok([scheme |-> s[1], host |-> "none", port |-> 0])
    ELSE Err("relative URL without a base")

\* Url::port_or_known_default
port_or_known_default(url) ==
    IF url.port # 0 THEN url.port
    ELSE CASE url.scheme = "https" -> 443
           [] url.scheme = "http" -> 80
           [] OTHER -> 0

\* What the system resolver answers for a name: an error, or the addresses.
DnsAnswers ==
    { Err("dns"), Ok(<<>>), Ok(<<"93.184.216.34", "2606:2800::1">>) }

\* ToSocketAddrs for (host, port): an IP literal is taken as it is, a name is
\* looked up. `lookup` tells whether the resolver was asked.
to_socket_addrs(host, port, answer) ==
    IF host \in IpLiterals
    THEN [result |-> Ok(<<SockAddr(host, port)>>), lookup |-> FALSE]
    ELSE IF host \in DomainNames
    THEN [result |-> IF answer.ok
                     THEN Ok([i \in 1..Len(answer.value) |->
                                SockAddr(answer.value[i], port)])
                     ELSE Err("dns"),
          lookup |-> TRUE]
    ELSE [result |-> Err("dns"), lookup |-> TRUE]

\* Url::socket_addrs(|| Some(443)): the URL's port, else the scheme's known
\* default, else the closure's 443; then the addresses of the host.
Url_socket_addrs(url, answer) ==
    to_socket_addrs(url.host,
                    IF port_or_known_default(url) # 0
                    THEN port_or_known_default(url) ELSE 443,
                    answer)

\* The segments of str::split(':').
RECURSIVE split_colon(_)
split_colon(s) ==
    IF \A i \in 1..Len(s) : s[i] # ":"
    THEN <<s>>
    ELSE LET k == CHOOSE i \in 1..Len(s) :
                    s[i] = ":" /\ \A j \in 1..(i - 1) : s[j] # ":"
         IN  <<SubSeq(s, 1, k - 1)>> \o split_colon(SubSeq(s, k + 1, Len(s)))

HostOk(name, a, lookup) ==
    [status |-> "ok", hostname |-> name, addr |-> a, lookup |-> lookup]

HostPanic(lookup) ==
    [status |-> "panic", hostname |-> <<>>, addr |-> NoAddr, lookup |-> lookup]

\* `addrs.unwrap()[0]` and `addrs.unwrap().next().unwrap()`: the first
\* address, a panic for an error and for no address.
first_addr(name, addrs) ==
    IF addrs.result.ok /\ addrs.result.value # <<>>
    THEN HostOk(name, addrs.result.value[1], addrs.lookup)
    ELSE HostPanic(addrs.lookup)

\* (hostname, port).to_socket_addrs() for a hostname given as text: text that
\* is neither an IP literal nor a name does not resolve.
resolve_text(name, port, answer) ==
    IF Len(name) = 1
    THEN to_socket_addrs(name[1], port, answer)
    ELSE [result |-> Err("dns"), lookup |-> TRUE]

\* The hostname/port fallback with host.split(':').last() as the port.
parse_host_split_LastSegment(host, answer) ==
    LET segs == split_colon(host)
    IN  IF Len(segs) >= 2
        THEN IF parse_u16(segs[Len(segs)]).ok
             THEN first_addr(segs[1],
                     resolve_text(segs[1], parse_u16(segs[Len(segs)]).value,
                                  answer))
             ELSE HostPanic(FALSE)
        ELSE first_addr(host, resolve_text(host, 443, answer))

\* The hostname/port fallback of parse_host: host.split(':').next() and
\* host.split(':').nth(1), the port parsed with unwrap before the lookup.
parse_host_split(host, answer) ==
    LET segs == split_colon(host)
    IN  IF Len(segs) >= 2
        THEN IF parse_u16(segs[2]).ok
             THEN first_addr(segs[1],
                     resolve_text(segs[1], parse_u16(segs[2]).value, answer))
             ELSE HostPanic(FALSE)
        ELSE first_addr(host, resolve_text(host, 443, answer))

\* parse_host
parse_host(host, answer) ==
    IF parse_SocketAddr(host).ok
    THEN HostOk(<<parse_SocketAddr(host).value.ip>>,
                parse_SocketAddr(host).value, FALSE)
    ELSE IF Url_parse(host).ok /\ Url_parse(host).value.host # "none"
    THEN first_addr(<<Url_parse(host).value.host>>,
                    Url_socket_addrs(Url_parse(host).value, answer))
    ELSE parse_host_split(host, answer)

-----------------------------------------------------------------------------
(* commands/connect.rs: Connect::run *)

\* A curve (group) name is a sequence of tokens, a curve list a sequence of
\* names (the text joins them with ':').
PqcCurves ==
    << <<"X25519", "MLKEM", "768">>, <<"X25519", "Kyber", "768Draft00">> >>

UserCurves == << <<"X25519">>, <<"P-256">> >>

BadCurves == << <<"bogus">> >>

\* Option<String>: <<>> is None.
CurveOptions == {<<>>, UserCurves, BadCurves}

\* clap: pqc conflicts with curves.
ConnectArgs ==
    { a \in [host : HostInputs, chain : BOOLEAN, rpk : BOOLEAN,
             curves : CurveOptions, pqc : BOOLEAN] :
        a.pqc => a.curves = <<>> }

NoArgs ==
    [host |-> <<>>, chain |-> FALSE, rpk |-> FALSE, curves |-> <<>>,
     pqc |-> FALSE]

\* SslConnector::builder verifies the peer by default.
NoConnector == [profile |-> "none", verify |-> "PEER", curves |-> <<>>]

NoSession == [verify_result |-> "unset", chain |-> <<>>, curve |-> <<>>]

NoConnection ==
    [curve |-> <<>>, is_pqc |-> FALSE, version |-> "unset", transport |-> "unset"]

\* SslContextBuilder::set_curves_list: an unknown group name is an error.
set_curves_list(list) ==
    IF \A i \in 1..Len(list) : list[i] \in
          {<<"X25519">>, <<"P-256">>, <<"X25519", "MLKEM", "768">>,
           <<"X25519", "Kyber", "768Draft00">>}
    THEN Ok(list) ELSE Err("curves")

\* Lines 56-75 with the curve options applied to the WebPKI builder alone.
configure_CurvesWebPkiOnly(a) ==
    LET curves == IF a.rpk THEN <<>> ELSE IF a.pqc THEN PqcCurves ELSE a.curves
        base == IF a.rpk
                THEN [profile |-> "rpk", verify |-> "PEER", curves |-> <<>>]
                ELSE [profile |-> "webpki", verify |-> "NONE", curves |-> <<>>]
    IN  IF curves = <<>> THEN Ok(base)
        ELSE IF set_curves_list(curves).ok
        THEN Ok([base EXCEPT !.curves = curves])
        ELSE Err("curves")

\* Lines 56-75 without the call of set_verify: the builder's default, the
\* verification of the peer, stays.
configure_VerifyPeer(a) ==
    LET curves == IF a.pqc THEN PqcCurves ELSE a.curves
        base == IF a.rpk
                THEN [profile |-> "rpk", verify |-> "PEER", curves |-> <<>>]
                ELSE [profile |-> "webpki", verify |-> "PEER", curves |-> <<>>]
    IN  IF curves = <<>> THEN Ok(base)
        ELSE IF set_curves_list(curves).ok
        THEN Ok([base EXCEPT !.curves = curves])
        ELSE Err("curves")

\* Lines 56-75: the builder of the mode, set_verify(NONE) unless rpk, the
\* fixed PQC pair for pqc, the curve list if there is one.
configure(a) ==
    LET curves == IF a.pqc THEN PqcCurves ELSE a.curves
        base == IF a.rpk
                THEN [profile |-> "rpk", verify |-> "PEER", curves |-> <<>>]
                ELSE [profile |-> "webpki", verify |-> "NONE", curves |-> <<>>]
    IN  IF curves = <<>> THEN Ok(base)
        ELSE IF set_curves_list(curves).ok
        THEN Ok([base EXCEPT !.curves = curves])
        ELSE Err("curves")

\* Largest number of certificates a peer presents.
MaxChain == 3

\* X509VerifyResult of the peer's chain.
VerifyResults == {"ok", "certificate has expired", "self signed certificate"}

\* The groups a connector offers.
Offered(c) ==
    IF c.curves = <<>> THEN {<<"X25519">>, <<"P-256">>}
    ELSE {c.curves[i] : i \in 1..Len(c.curves)}

\* The key algorithms of the certificates a peer presents.
PeerKeyAlgs == {"RSA", "ED25519"}

\* What a peer makes of a handshake: the chain it presents (certificate i at
\* position i, the leaf first, all with keys of one algorithm), how that chain
\* verifies, and the group it picks among the offered ones (none for a key
\* exchange without a group).
Peers(c) ==
    { [chain |-> [i \in 1..n |-> Obj(i, a)], verify_result |-> v, curve |-> g] :
        n \in (IF c.profile = "rpk" THEN {0} ELSE 1..MaxChain),
        a \in PeerKeyAlgs,
        v \in (IF c.profile = "rpk" THEN {"ok"} ELSE VerifyResults),
        g \in Offered(c) \cup {<<>>} }

\* tokio_boring::connect: fails for a transport or protocol failure, and for
\* a chain that does not verify when the connector verifies the peer.
handshake(c, peer, net_ok) ==
    IF ~net_ok THEN Err("handshake")
    ELSE IF c.profile = "webpki" /\ c.verify = "PEER"
            /\ peer.verify_result # "ok"
    THEN Err("certificate verify failed")
    ELSE Ok([verify_result |-> peer.verify_result, chain |-> peer.chain,
             curve |-> peer.curve])

\* connection.rs: the conversion with the test for "Kyber" alone.
Connection_from_KyberOnly(transport, ssl) ==
    [curve |-> ssl.curve,
     is_pqc |-> \E i \in 1..Len(ssl.curve) : ssl.curve[i] = "Kyber",
     version |-> "TLSv1.3",
     transport |-> transport]

\* connection.rs: impl From<(Transport, Time, &SslRef)> for Connection
Connection_from(transport, ssl) ==
    [curve |-> ssl.curve,
     is_pqc |-> \E i \in 1..Len(ssl.curve) : ssl.curve[i] \in {"Kyber", "MLKEM"},
     version |-> "TLSv1.3",
     transport |-> transport]

\* apply_verify_result storing the text of the result on success as well.
apply_verify_result_AlwaysReason(cert, verify_result) ==
    IF verify_result # "ok"
    THEN [cert EXCEPT !.valid = "false", !.verify_result = verify_result]
    ELSE [cert EXCEPT !.valid = "true", !.verify_result = verify_result]

\* SimpleCert::apply_verify_result
apply_verify_result(cert, verify_result) ==
    IF verify_result # "ok"
    THEN [cert EXCEPT !.valid = "false", !.verify_result = verify_result]
    ELSE [cert EXCEPT !.valid = "true"]

\* Lines 91-104 with the chain taken without its first certificate, as
\* peer_cert_chain gives it on the server side.
extract_certs_NoLeaf(a, ssl) ==
    LET found == IF a.chain
                 THEN [i \in 1..(Len(ssl.chain) - 1) |->
                          SimpleCert_from(ssl.chain[i + 1])]
                 ELSE <<SimpleCert_from(ssl.chain[1])>>
    IN  IF found = <<>> THEN found
        ELSE [found EXCEPT ![1] = apply_verify_result(@, ssl.verify_result)]

\* Lines 91-104 with the verification outcome applied to every certificate.
extract_certs_VerifyAll(a, ssl) ==
    LET found == IF a.chain
                 THEN [i \in 1..Len(ssl.chain) |-> SimpleCert_from(ssl.chain[i])]
                 ELSE <<SimpleCert_from(ssl.chain[1])>>
    IN  [i \in 1..Len(found) |-> apply_verify_result(found[i], ssl.verify_result)]

\* Lines 91-104: the chain or the leaf, normalized, the verification outcome
\* applied to the first certificate.
extract_certs(a, ssl) ==
    LET found == IF a.chain
                 THEN [i \in 1..Len(ssl.chain) |-> SimpleCert_from(ssl.chain[i])]
                 ELSE <<SimpleCert_from(ssl.chain[1])>>
    IN  IF found = <<>> THEN found
        ELSE [found EXCEPT ![1] = apply_verify_result(@, ssl.verify_result)]

\* components/connection.rs: print_tls_connection_with_certs; of the JSON
\* document of ConnectionWithCerts the field certs is kept.
print_tls_connection_with_certs(cs, fmt) ==
    CASE fmt = "Text" -> <<Item("text", "connection", cs)>>
      [] fmt = "Json" ->
            <<JsonItem("connection", cs,
                       [type |-> "object",
                        members |-> [certs |-> Json_vec(cs)]])>>
      [] fmt = "Pem" -> [i \in 1..Len(cs) |-> Item("pem", "certs", <<cs[i]>>)]

parseVars == <<data, idx, parse_result, der_attempted>>

\* An entry of the trace: an operation begins, or ends ok, with an error
\* returned (err) or with a panic.
Ev(op, ev, why) == [op |-> op, ev |-> ev, why |-> why]

\* Command::run for Command::Connect.
ConnectStart ==
    /\ pc = "dispatch"
    /\ command' = "connect"
    /\ args' \in ConnectArgs
    /\ pc' = "resolve"
    /\ UNCHANGED <<cli, tty, format, parseVars, log, stdout, hostname, addr,
                   dns_log, inflight, trace, connector, tls, conn, certs>>
    /\ UNCHANGED unitVars

\* Line 49: parse_host is entered.
ResolveBegin ==
    /\ pc = "resolve"
    /\ inflight' = inflight \cup {"dns"}
    /\ trace' = Append(trace, Ev("dns", "begin", ""))
    /\ pc' = "resolving"
    /\ UNCHANGED <<cli, tty, format, command, parseVars, log, stdout, args,
                   hostname, addr, dns_log, connector, tls, conn, certs>>
    /\ UNCHANGED unitVars

\* Line 49: parse_host returns the hostname and the address, or panics.
ResolveEnd ==
    /\ pc = "resolving"
    /\ inflight' = inflight \ {"dns"}
    /\ \E answer \in DnsAnswers :
         LET r == parse_host(args.host, answer)
         IN  /\ dns_log' = IF r.lookup THEN Append(dns_log, answer)
                           ELSE dns_log
             /\ IF r.status = "ok"
                THEN /\ hostname' = r.hostname
                     /\ addr' = r.addr
                     /\ trace' = Append(trace, Ev("dns", "ok", ""))
                     /\ pc' = "dial"
                ELSE /\ trace' = Append(trace, Ev("dns", "panic", "unwrap"))
                     /\ pc' = "panicked"
                     /\ UNCHANGED <<hostname, addr>>
    /\ UNCHANGED <<cli, tty, format, command, parseVars, log, stdout, args,
                   connector, tls, conn, certs>>
    /\ UNCHANGED unitVars

\* Line 53: TcpStream::connect(addr) is started.
DialBegin ==
    /\ pc = "dial"
    /\ inflight' = inflight \cup {"tcp"}
    /\ trace' = Append(trace, Ev("tcp", "begin", ""))
    /\ pc' = "dialing"
    /\ UNCHANGED <<cli, tty, format, command, parseVars, log, stdout, args,
                   hostname, addr, dns_log, connector, tls, conn, certs>>
    /\ UNCHANGED unitVars

\* Line 53 without `?`: an error of the TCP connect is logged and the run goes
\* on to the handshake.
DialEnd_IgnoreError ==
    /\ pc = "dialing"
    /\ inflight' = inflight \ {"tcp"}
    /\ \/ /\ trace' = Append(trace, Ev("tcp", "err", "connect"))
          /\ pc' = "handshake"
          /\ UNCHANGED <<args, connector>>
       \/ IF configure(args).ok
          THEN /\ connector' = configure(args).value
               /\ args' = [args EXCEPT !.curves =
                              IF args.pqc THEN PqcCurves ELSE @]
               /\ trace' = Append(trace, Ev("tcp", "ok", ""))
               /\ pc' = "handshake"
          ELSE /\ trace' = trace \o <<Ev("tcp", "ok", ""),
                                      Ev("configure", "err", "curves")>>
               /\ pc' = "failed"
               /\ UNCHANGED <<args, connector>>
    /\ UNCHANGED <<cli, tty, format, command, parseVars, log, stdout, hostname,
                   addr, dns_log, tls, conn, certs>>
    /\ UNCHANGED unitVars

\* Line 53: `.await?`: the stream, or the error returned. Lines 56-75 follow
\* without a suspension point: the connector is configured, and an error of
\* set_curves_list is returned.
DialEnd ==
    /\ pc = "dialing"
    /\ inflight' = inflight \ {"tcp"}
    /\ \/ /\ trace' = Append(trace, Ev("tcp", "err", "connect"))
          /\ pc' = "failed"
          /\ UNCHANGED <<args, connector>>
       \/ IF configure(args).ok
          THEN /\ connector' = configure(args).value
               /\ args' = [args EXCEPT !.curves =
                              IF args.pqc THEN PqcCurves ELSE @]
               /\ trace' = Append(trace, Ev("tcp", "ok", ""))
               /\ pc' = "handshake"
          ELSE /\ trace' = trace \o <<Ev("tcp", "ok", ""),
                                      Ev("configure", "err", "curves")>>
               /\ pc' = "failed"
               /\ UNCHANGED <<args, connector>>
    /\ UNCHANGED <<cli, tty, format, command, parseVars, log, stdout, hostname,
                   addr, dns_log, tls, conn, certs>>
    /\ UNCHANGED unitVars

\* The handshake spawned beside the TCP connect, before its await returns.
HandshakeBegin_Spawned ==
    /\ pc = "dialing"
    /\ inflight' = inflight \cup {"tls"}
    /\ trace' = Append(trace, Ev("tls", "begin", ""))
    /\ pc' = "handshaking"
    /\ UNCHANGED <<cli, tty, format, command, parseVars, log, stdout, args,
                   hostname, addr, dns_log, connector, tls, conn, certs>>
    /\ UNCHANGED unitVars

\* Line 80: tokio_boring::connect is started.
HandshakeBegin ==
    /\ pc = "handshake"
    /\ inflight' = inflight \cup {"tls"}
    /\ trace' = Append(trace, Ev("tls", "begin", ""))
    /\ pc' = "handshaking"
    /\ UNCHANGED <<cli, tty, format, command, parseVars, log, stdout, args,
                   hostname, addr, dns_log, connector, tls, conn, certs>>
    /\ UNCHANGED unitVars

\* Line 80: `.await?`: the session, or the error returned.
HandshakeEnd ==
    /\ pc = "handshaking"
    /\ inflight' = inflight \ {"tls"}
    /\ \E peer \in Peers(connector), net_ok \in BOOLEAN :
         LET r == handshake(connector, peer, net_ok)
         IN  IF r.ok
             THEN /\ tls' = r.value
                  /\ trace' = Append(trace, Ev("tls", "ok", ""))
                  /\ pc' = "extract"
             ELSE /\ trace' = Append(trace, Ev("tls", "err", r.value))
                  /\ pc' = "failed"
                  /\ tls' = tls
    /\ UNCHANGED <<cli, tty, format, command, parseVars, log, stdout, args,
                   hostname, addr, dns_log, connector, conn, certs>>
    /\ UNCHANGED unitVars

\* Lines 89-116 without the test of self.rpk: the certificates are taken in
\* every mode, and peer_certificate().unwrap() panics on a peer without one.
Extract_CertsInRpk ==
    /\ pc = "extract"
    /\ trace' = Append(trace, Ev("extract", "begin", ""))
    /\ conn' = Connection_from("TCP", tls)
    /\ IF args.chain \/ tls.chain # <<>>
       THEN /\ certs' = extract_certs(args, tls)
            /\ stdout' = stdout
                  \o print_tls_connection_with_certs(extract_certs(args, tls),
                                                     format)
            /\ pc' = "done"
       ELSE /\ pc' = "panicked"
            /\ UNCHANGED <<certs, stdout>>
    /\ UNCHANGED <<cli, tty, format, command, parseVars, log, args, hostname,
                   addr, dns_log, inflight, connector, tls>>
    /\ UNCHANGED unitVars

\* Lines 83-118: the Connection, and unless rpk the certificates with the
\* verification outcome on the first one, printed in the negotiated format
\* (SimpleCert::from panics where a key's normalization does);
\* with rpk the line "Connected to <hostname>".
Extract ==
    /\ pc = "extract"
    /\ conn' = Connection_from("TCP", tls)
    /\ IF args.rpk
       THEN /\ certs' = certs
            /\ stdout' = Append(stdout, Item("plain", "connected", <<>>))
            /\ trace' = Append(trace, Ev("extract", "begin", ""))
            /\ pc' = "done"
       ELSE IF \E i \in 1..(IF args.chain THEN Len(tls.chain) ELSE 1) :
                  ~Normalizes(tls.chain[i])
       THEN /\ trace' = trace \o <<Ev("extract", "begin", ""),
                                   Ev("extract", "panic", "unwrap")>>
            /\ pc' = "panicked"
            /\ UNCHANGED <<certs, stdout>>
       ELSE /\ certs' = extract_certs(args, tls)
            /\ stdout' = stdout
                  \o print_tls_connection_with_certs(extract_certs(args, tls),
                                                     format)
            /\ trace' = Append(trace, Ev("extract", "begin", ""))
            /\ pc' = "done"
    /\ UNCHANGED <<cli, tty, format, command, parseVars, log, args, hostname,
                   addr, dns_log, inflight, connector, tls>>
    /\ UNCHANGED unitVars

-----------------------------------------------------------------------------

\* The state before main runs, but for the flags and the terminal state,
\* which are the inputs of the invocation: everything is empty.
NoRun ==
    /\ pc = "start"
    /\ format = "unset"
    /\ command = "unset"
    /\ data = NoBuffer
    /\ idx = 1
    /\ parse_result = EmptyResult
    /\ der_attempted = FALSE
    /\ stdout = <<>>
    /\ log = <<>>
    /\ args = NoArgs
    /\ hostname = <<>>
    /\ addr = NoAddr
    /\ dns_log = <<>>
    /\ inflight = {}
    /\ trace = <<>>
    /\ connector = NoConnector
    /\ tls = NoSession
    /\ conn = NoConnection
    /\ certs = <<>>

\* No block handed to the normalization, and no result of it.
NoObject == [block |-> MkBlock(<<"", "invalid", "none">>, 0), now |-> 0]

NoNormal ==
    [status |-> "unset", kind |-> "none", hex |-> <<>>, fingerprints |-> <<>>,
     expires_in |-> 0]

\* No conversion has been asked for.
\* No scanner has run.
NoSlices == [status |-> "unset", boundaries |-> <<>>, slices |-> <<>>]

NoScan ==
    /\ raw_pems = [status |-> "unset", items |-> <<>>]
    /\ old_slices = NoSlices
    /\ new_slices = NoSlices

NoUnit ==
    /\ general_names = <<>>
    /\ sans = [status |-> "unset", value |-> EmptySans]
    /\ object = NoObject
    /\ normal = NoNormal
    /\ buffer = <<>>
    /\ NoScan

Init ==
    /\ cli \in CliFlags
    /\ tty \in BOOLEAN
    /\ NoRun
    /\ NoUnit

Next ==
    \/ NegotiateFormat
    \/ ParseRead
    \/ ParseStep
    \/ ParseOutput
    \/ PrintPemsCall
    \/ PrintPemsStep
    \/ PrintPemsOutput
    \/ LegacyRead
    \/ LegacyParse
    \/ ConnectStart
    \/ ResolveBegin
    \/ ResolveEnd
    \/ DialBegin
    \/ DialEnd
    \/ HandshakeBegin
    \/ HandshakeEnd
    \/ Extract

Spec == Init /\ [][Next]_vars

-----------------------------------------------------------------------------
(* x509.rs: the conversions of the normalization, each on inputs of its own *)

\* Largest number of entries of a subject-alternative-name extension.
MaxSans == 3

\* The entry at position i of an extension, by its shape: a dNSName, an
\* iPAddress of 4, of 16 or of 8 bytes, an rfc822Name, a URI, a
\* directoryName.
MkGeneralName(shape, i) ==
    CASE shape = "ip4" -> GeneralName("ip", i, 4)
      [] shape = "ip16" -> GeneralName("ip", i, 16)
      [] shape = "ip8" -> GeneralName("ip", i, 8)
      [] OTHER -> GeneralName(shape, i, 0)

GeneralNameShapes == {"dns", "ip4", "ip16", "ip8", "email", "uri", "dirname"}

\* The stacks X509::subject_alt_names returns.
SanStacks ==
    UNION { { [i \in 1..n |-> MkGeneralName(f[i], i)] :
                f \in [1..n -> GeneralNameShapes] } : n \in 0..MaxSans }

\* Subject::from: `cert.subject_alt_names().map(Sans::from)`.
NormalizeSans ==
    /\ sans.status = "unset"
    /\ sans' = Sans_from_stack(general_names)
    /\ UNCHANGED <<general_names, object, normal, scanVars, runVars>>

\* The blocks the normalization is handed: the kinds print_pems keeps, with
\* keys of the algorithms the library reads.
NormalizedShapes ==
    { <<"CERTIFICATE", "x509", "RSA">>,
      <<"CERTIFICATE", "x509", "DSA">>,
      <<"CERTIFICATE", "x509", "EC">>,
      <<"CERTIFICATE", "x509", "ED25519">>,
      <<"CERTIFICATE REQUEST", "x509req", "EC">>,
      <<"PUBLIC KEY", "spki", "RSA">>,
      <<"PUBLIC KEY", "spki", "DSA">>,
      <<"PUBLIC KEY", "spki", "EC">>,
      <<"PRIVATE KEY", "pkcs8", "RSA">>,
      <<"PRIVATE KEY", "pkcs8", "DSA">>,
      <<"PRIVATE KEY", "pkcs8", "EC">>,
      <<"RSA PRIVATE KEY", "pkcs1priv", "RSA">> }

\* Timestamp::now() at the normalization.
Times == {1, 2}

\* The number the DER of an object holds (its serial, its key identifiers,
\* the numbers of its key): 0xab, 0x010a or zero, by the object.
Number(obj) ==
    <<BigNum(FALSE, <<171>>), BigNum(FALSE, <<1, 10>>), BigNum(FALSE, <<>>)>>
        [(obj.id % 3) + 1]

\* A block in any layout, at any position of its buffer, at any time.
Objects ==
    { [block |-> [MkBlock(shape, i) EXCEPT !.fill = l], now |-> t] :
        shape \in NormalizedShapes, i \in 1..MaxBlocks, l \in Layouts,
        t \in Times }

\* parse_pems on the block, then the match of print_pems and the conversion of
\* the variant: SimpleCert::from, SimpleCsr::from, SimplePrivateKey::from or
\* SimplePublicKey::from, which panics where the match on the key's id does.
Normalized(o) ==
    LET pem == parse_pem_item(o.block)[1].value
    IN  IF ~Normalizes(pem.obj) THEN [NoNormal EXCEPT !.status = "panic"]
        ELSE CASE pem.variant = "Cert" ->
                    [status |-> "ok", kind |-> "cert",
                     hex |-> SimpleCert_hex(pem.obj, Number(pem.obj)),
                     fingerprints |->
                         <<Fingerprints(pem.obj)["sha256"],
                           Fingerprints(pem.obj)["sha1"],
                           Fingerprints(pem.obj)["md5"]>>,
                     expires_in |-> Validity_from(pem.obj, o.now).expires_in]
               [] pem.variant = "CertReq" ->
                    [status |-> "ok", kind |-> "csr",
                     hex |-> SimpleCsr_hex(pem.obj, Number(pem.obj)),
                     fingerprints |-> <<>>, expires_in |-> 0]
               [] pem.variant = "PublicKey" ->
                    [status |-> "ok", kind |-> "public_key",
                     hex |-> SimplePublicKey_hex(pem.obj.alg, Number(pem.obj)),
                     fingerprints |-> <<>>, expires_in |-> 0]
               [] pem.variant \in {"PrivateKey", "RsaPrivateKey"} ->
                    [status |-> "ok", kind |-> "private_key",
                     hex |-> SimplePrivateKey_hex(pem.obj.alg, Number(pem.obj)),
                     fingerprints |-> <<>>, expires_in |-> 0]

\* One block is parsed and normalized.
Normalize ==
    /\ normal.status = "unset"
    /\ normal' = Normalized(object)
    /\ UNCHANGED <<general_names, sans, object, scanVars, runVars>>

InitNormalize ==
    /\ cli = [text |-> FALSE, json |-> FALSE, pem |-> FALSE]
    /\ tty = FALSE
    /\ NoRun
    /\ general_names = <<>>
    /\ sans = [status |-> "unset", value |-> EmptySans]
    /\ object \in Objects
    /\ normal = NoNormal
    /\ buffer = <<>>
    /\ NoScan

NextNormalize ==
    \/ Normalize

SpecNormalize == InitNormalize /\ [][NextNormalize]_vars

InitSans ==
    /\ cli = [text |-> FALSE, json |-> FALSE, pem |-> FALSE]
    /\ tty = FALSE
    /\ NoRun
    /\ general_names \in SanStacks
    /\ sans = [status |-> "unset", value |-> EmptySans]
    /\ object = NoObject
    /\ normal = NoNormal
    /\ buffer = <<>>
    /\ NoScan

NextSans ==
    \/ NormalizeSans

SpecSans == InitSans /\ [][NextSans]_vars

-----------------------------------------------------------------------------
(* pem/parser.rs, x509_parser.rs, x509/parser.rs: the scanners, on buffer *)

\* A buffer is a sequence of bytes, offsets are counted from 0 as in the code.
\* The markers are cut short, one byte for each of their parts: "-" for the
\* five dashes, "B" for "BEGIN ", "E" for "END ", "C" for "CERTIFICATE";
\* "x" is a byte of base64.
BEGIN_MARKER == <<"-", "B", "C", "-">>

END_MARKER == <<"-", "E", "C", "-">>

\* Largest number of pieces a buffer is made of.
MaxPieces == 4

\* The pieces: the two markers, a payload byte, a BEGIN marker that lacks its
\* closing dashes, an END marker with an empty label.
Pieces ==
    {BEGIN_MARKER, END_MARKER, <<"x">>, <<"-", "B", "C">>, <<"-", "E", "-">>}

RECURSIVE Concat(_)
Concat(ps) == IF ps = <<>> THEN <<>> ELSE Head(ps) \o Concat(Tail(ps))

ByteBuffers ==
    UNION { {Concat(ps) : ps \in [1..n -> Pieces]} : n \in 0..MaxPieces }

\* memmem::find(haystack, needle): the offset of the first occurrence, -1 for
\* None.
memmem_find(haystack, needle) ==
    LET hits == { i \in 0..(Len(haystack) - Len(needle)) :
                    SubSeq(haystack, i + 1, i + Len(needle)) = needle }
    IN  IF hits = {} THEN -1
        ELSE CHOOSE i \in hits : \A j \in hits : i <= j

\* memmem::find(&data[from..], needle), as an offset into data.
find_from(buf, needle, from) ==
    LET rel == memmem_find(SubSeq(buf, from + 1, Len(buf)), needle)
    IN  IF rel = -1 THEN -1 ELSE from + rel

\* memmem::find_iter(data, needle) from an offset on: the occurrences that do
\* not overlap, in order.
RECURSIVE memmem_find_iter(_, _, _)
memmem_find_iter(buf, needle, from) ==
    LET at == find_from(buf, needle, from)
    IN  IF at = -1 THEN <<>>
        ELSE <<at>> \o memmem_find_iter(buf, needle, at + Len(needle))

\* find_cert_boundries_raw of both parsers: for every BEGIN marker that has
\* an END marker in data[begin..], (begin, begin + end + END_MARKER.len()).
find_cert_boundries_raw_bytes(buf) ==
    LET begins == memmem_find_iter(buf, BEGIN_MARKER, 0)
        paired == SelectSeq(begins,
                            LAMBDA b : find_from(buf, END_MARKER, b) # -1)
    IN  [i \in 1..Len(paired) |->
            <<paired[i],
              find_from(buf, END_MARKER, paired[i]) + Len(END_MARKER)>>]

\* &data[from..=to]: the bytes, or the panic of a range that starts after its
\* end or ends after the buffer.
slice_inclusive(buf, from, to) ==
    IF from <= to + 1 /\ to + 1 <= Len(buf)
    THEN Ok(SubSeq(buf, from + 1, to + 1))
    ELSE Err(<<>>)

\* The slices of a run: those up to the first panic. A run that returns an
\* error of the decoding early has taken a prefix of them.
RECURSIVE UntilPanic(_)
UntilPanic(slices) ==
    IF slices = <<>> THEN <<>>
    ELSE IF ~Head(slices).ok THEN <<Head(slices)>>
    ELSE <<Head(slices)>> \o UntilPanic(Tail(slices))

Slices(bs, slices) ==
    [status |-> IF \E i \in 1..Len(slices) : ~slices[i].ok
                THEN "panic" ELSE "done",
     boundaries |-> bs, slices |-> slices]

\* x509_parser.rs parse_pem: `&data[begin..=end]` for each boundary.
parse_pem_old_slices(buf) ==
    LET bs == find_cert_boundries_raw_bytes(buf)
    IN  Slices(bs, UntilPanic([i \in 1..Len(bs) |->
                    slice_inclusive(buf, bs[i][1], bs[i][2])]))

\* x509/parser.rs parse_pem:
\* `&data[begin + BEGIN_MARKER.len()..=end - END_MARKER.len() - 1]`.
parse_pem_new_slices(buf) ==
    LET bs == find_cert_boundries_raw_bytes(buf)
    IN  Slices(bs, UntilPanic([i \in 1..Len(bs) |->
                    slice_inclusive(buf, bs[i][1] + Len(BEGIN_MARKER),
                                    bs[i][2] - Len(END_MARKER) - 1)]))

\* PEM_REGEX.captures_iter(data) from an offset on. The leftmost match starts
\* at the first "-----BEGIN "; its lazy groups end at the first "-----" after
\* it (header_label), at the first "-----END " after that (cert_data) and at
\* the first "-----" after that; the search goes on behind the match.
RECURSIVE captures_iter(_, _)
captures_iter(buf, from) ==
    LET s == find_from(buf, <<"-", "B">>, from)
        j == IF s = -1 THEN -1 ELSE find_from(buf, <<"-">>, s + 2)
        k == IF j = -1 THEN -1 ELSE find_from(buf, <<"-", "E">>, j + 1)
        m == IF k = -1 THEN -1 ELSE find_from(buf, <<"-">>, k + 2)
    IN  IF m = -1 THEN <<>>
        ELSE <<[pem |-> <<s, m + 1>>,
                header_label |-> SubSeq(buf, s + 3, j),
                cert_data |-> SubSeq(buf, j + 2, k)]>>
             \o captures_iter(buf, m + 1)

\* extract_raw_pems: for each match the RawPem of its span, its label and its
\* decoded payload, or the error of decode_block, which a dash in the text
\* gives.
extract_raw_pems(buf) ==
    LET caps == captures_iter(buf, 0)
    IN  [i \in 1..Len(caps) |->
            LET cleaned == REMOVE_WHITESPACE(caps[i].cert_data)
            IN  IF \E n \in 1..Len(cleaned) : cleaned[n] = "-"
                THEN [ok |-> FALSE, span |-> <<0, 0>>, label |-> <<>>,
                      data |-> <<>>]
                ELSE [ok |-> TRUE, span |-> caps[i].pem,
                      label |-> caps[i].header_label, data |-> cleaned]]

ScanPems ==
    /\ raw_pems.status = "unset"
    /\ raw_pems' = [status |-> "done", items |-> extract_raw_pems(buffer)]
    /\ UNCHANGED <<buffer, old_slices, new_slices>>
    /\ UNCHANGED <<general_names, sans, object, normal, runVars>>

ParsePemOld ==
    /\ old_slices.status = "unset"
    /\ old_slices' = parse_pem_old_slices(buffer)
    /\ UNCHANGED <<buffer, raw_pems, new_slices>>
    /\ UNCHANGED <<general_names, sans, object, normal, runVars>>

ParsePemNew ==
    /\ new_slices.status = "unset"
    /\ new_slices' = parse_pem_new_slices(buffer)
    /\ UNCHANGED <<buffer, raw_pems, old_slices>>
    /\ UNCHANGED <<general_names, sans, object, normal, runVars>>

InitScan ==
    /\ cli = [text |-> FALSE, json |-> FALSE, pem |-> FALSE]
    /\ tty = FALSE
    /\ NoRun
    /\ general_names = <<>>
    /\ sans = [status |-> "unset", value |-> EmptySans]
    /\ object = NoObject
    /\ normal = NoNormal
    /\ buffer \in ByteBuffers
    /\ NoScan

NextScan ==
    \/ ScanPems
    \/ ParsePemOld
    \/ ParsePemNew

SpecScan == InitScan /\ [][NextScan]_vars

-----------------------------------------------------------------------------
(* Properties of the parse paths *)

RecognizedLabels ==
    {"CERTIFICATE", "CERTIFICATE REQUEST", "PUBLIC KEY", "RSA PUBLIC KEY",
     "RSA PRIVATE KEY", "PRIVATE KEY", "EC PRIVATE KEY"}

\* A block that decodes: base64 payload, recognized label, DER that the
\* decoder of the label accepts. Every other block is a failed block.
BlockDecodes(b) ==
    /\ b.payload.valid
    /\ b.label \in RecognizedLabels
    /\ b.payload.der.enc \in Accepts(Label_from_str(b.label))

\* The result collection a label belongs to.
CollectionOf(label) ==
    CASE label = "CERTIFICATE" -> "certs"
      [] label = "CERTIFICATE REQUEST" -> "csrs"
      [] label \in {"PUBLIC KEY", "RSA PUBLIC KEY"} -> "public_keys"
      [] OTHER -> "private_keys"

\* The positions of the blocks of `buf` that decode under one of `labels`, in
\* source order.
DecodedAt(buf, labels) ==
    SelectSeq([i \in 1..Len(buf.blocks) |-> i],
              LAMBDA i : BlockDecodes(buf.blocks[i])
                         /\ buf.blocks[i].label \in labels)

EntityCount(res) ==
    Len(res.certs) + Len(res.csrs) + Len(res.public_keys)
    + Len(res.private_keys)

InParse == command \in {"parse", "print_pems"} /\ data # NoBuffer

\* C1: a failed block (invalid base64, unrecognized label, DER that does not
\* decode) never stops the loop over the blocks: a run that ends early ended
\* at a block that decodes, a run that completes has gone over every block,
\* every certificate or CSR block the loop has passed is in the result
\* whatever failed before or after it, and the result never holds more
\* entities than the buffer has blocks.
C1_FailureIsolation ==
    InParse =>
        /\ EntityCount(parse_result) <= Len(data.blocks)
        /\ pc \in {"panicked", "failed"} =>
              /\ idx <= Len(data.blocks)
              /\ BlockDecodes(data.blocks[idx])
        /\ pc = "done" => idx = Len(data.blocks) + 1
        /\ \A i \in 1..Len(data.blocks) :
              ( /\ i < idx
                /\ BlockDecodes(data.blocks[i])
                /\ data.blocks[i].label \in {"CERTIFICATE", "CERTIFICATE REQUEST"} )
              => \E k \in 1..Len(parse_result[CollectionOf(data.blocks[i].label)]) :
                    parse_result[CollectionOf(data.blocks[i].label)][k].obj.id = i

\* C1's case: the first block failed and the certificate of the second block
\* is in the result.
C1_Witness ==
    /\ command = "parse"
    /\ Len(data.blocks) = 2
    /\ ~BlockDecodes(data.blocks[1])
    /\ parse_result.certs # <<>>
    /\ parse_result.certs[1].obj.id = 2

\* C2: in the parse command every block that decodes under one of the seven
\* recognized labels ends in the result collection of its kind, and the
\* command completes normally: it never panics.
C2_EveryDecodedEntityKept ==
    (command = "parse" /\ data # NoBuffer) =>
        /\ pc # "panicked"
        /\ pc = "done" =>
              \A i \in 1..Len(data.blocks) :
                 BlockDecodes(data.blocks[i]) =>
                    \E k \in 1..Len(parse_result[CollectionOf(data.blocks[i].label)]) :
                       parse_result[CollectionOf(data.blocks[i].label)][k].obj.id = i

\* C3: a buffer without any BEGIN/END marker is handed as a whole to parse_der,
\* and the certificate it encodes is the result.
C3_WholeBufferDerFallback ==
    ( /\ command \in {"parse", "legacy_parse"}
      /\ pc = "done"
      /\ data # NoBuffer
      /\ data.blocks = <<>> )
    => /\ der_attempted
       /\ data.whole.enc = "x509" =>
             /\ Len(parse_result.certs) = 1
             /\ parse_result.certs[1].obj = data.whole.obj

\* The entities whose PEM text was written, as <<kind, source position>>.
PemWritten(out) ==
    LET items == SelectSeq(out, LAMBDA it : it.fmt = "pem")
    IN  [i \in 1..Len(items) |-> <<items[i].ents[1].kind, items[i].ents[1].obj.id>>]

Tagged(kind, positions) ==
    [i \in 1..Len(positions) |-> <<kind, positions[i]>>]

\* The source positions of the written PEM texts.
PemWrittenAt(out) == [i \in 1..Len(PemWritten(out)) |-> PemWritten(out)[i][2]]

\* C4 as stated: in PEM mode the parse command writes the PEM text of every
\* decoded entity in the order of the source buffer.
C4_PemInSourceOrder ==
    (command = "parse" /\ format = "Pem" /\ pc = "done" /\ data # NoBuffer) =>
        PemWrittenAt(stdout) = DecodedAt(data, RecognizedLabels)

\* C4 (amended): in PEM mode the output is grouped by kind: the parse command
\* writes the certificates it decoded in source order and then the CSRs it
\* decoded in source order, and nothing before the loop has ended;
\* print_pems writes certificates, CSRs, public keys (PUBLIC KEY) and private
\* keys (PRIVATE KEY, RSA PRIVATE KEY), each group in source order.
C4_PemGroupedByKind ==
    (format = "Pem" /\ InParse) =>
        IF pc # "done" THEN stdout = <<>>
        ELSE IF command = "parse"
        THEN PemWritten(stdout) =
                Tagged("cert", DecodedAt(data, {"CERTIFICATE"}))
                \o Tagged("csr", DecodedAt(data, {"CERTIFICATE REQUEST"}))
        ELSE PemWritten(stdout) =
                Tagged("cert", DecodedAt(data, {"CERTIFICATE"}))
                \o Tagged("csr", DecodedAt(data, {"CERTIFICATE REQUEST"}))
                \o Tagged("public_key", DecodedAt(data, {"PUBLIC KEY"}))
                \o Tagged("private_key",
                          DecodedAt(data, {"PRIVATE KEY", "RSA PRIVATE KEY"}))

\* C4's case: a CSR before a certificate in the buffer, both written.
C4_Witness ==
    /\ command = "parse"
    /\ format = "Pem"
    /\ pc = "done"
    /\ Len(data.blocks) = 2
    /\ data.blocks[1].label = "CERTIFICATE REQUEST"
    /\ data.blocks[2].label = "CERTIFICATE"
    /\ Len(stdout) = 2

\* C5: the PEM text written for an entity, scanned again, decodes to the DER
\* bytes of the block the entity came from.
C5_PemRoundTrip ==
    InParse =>
        \A i \in 1..Len(stdout) :
            stdout[i].fmt = "pem" =>
                /\ extract_raw_pem(stdout[i].ents[1].pem).ok
                /\ extract_raw_pem(stdout[i].ents[1].pem).value.data
                      = SourceDer(data, stdout[i].ents[1])

-----------------------------------------------------------------------------
(* Properties of the format negotiation *)

\* The resolution order of the Format Negotiator.
ClaimedFormat(flags, is_terminal) ==
    IF flags.json THEN "Json"
    ELSE IF flags.pem THEN "Pem"
    ELSE IF flags.text THEN "Text"
    ELSE IF ~is_terminal THEN "Json"
    ELSE "Text"

\* C6: with at most one flag set, the negotiated format is Json for json,
\* else Pem for pem, else Text for text, else Json off a terminal and Text on
\* one; it is always one of the three.
C6_FormatNegotiation ==
    format # "unset" =>
        /\ format = ClaimedFormat(cli, tty)
        /\ format \in {"Json", "Text", "Pem"}

\* C6's case: the pem flag off a terminal.
C6_Witness == format = "Pem" /\ cli.pem /\ ~tty

-----------------------------------------------------------------------------
(* Properties of the connection diagnostic *)

\* The position of the first ':' of a string, 0 if it has none.
FirstColon(s) ==
    IF \A i \in 1..Len(s) : s[i] # ":" THEN 0
    ELSE CHOOSE i \in 1..Len(s) : s[i] = ":" /\ \A j \in 1..(i - 1) : s[j] # ":"

BeforeFirstColon(s) == SubSeq(s, 1, FirstColon(s) - 1)

AfterFirstColon(s) == SubSeq(s, FirstColon(s) + 1, Len(s))

\* The text between the first ':' and the second (or the end).
SecondSegment(s) ==
    IF FirstColon(AfterFirstColon(s)) = 0 THEN AfterFirstColon(s)
    ELSE BeforeFirstColon(AfterFirstColon(s))

IsUrlWithHost(s) == Url_parse(s).ok /\ Url_parse(s).value.host # "none"

Resolved == command = "connect" /\ hostname # <<>>

\* The address is the first one the resolver gave, or the IP literal itself.
FirstAddressUsed ==
    IF dns_log = <<>> THEN <<addr.ip>> = hostname
    ELSE /\ Len(dns_log) = 1
         /\ addr.ip = dns_log[1].value[1]

\* C7 as stated: (a) a literal ip:port is returned as it is, without DNS;
\* (b) else a URL with a host gives that host and the URL's port or 443;
\* (c) else the input is split at the first ':' into host and port, port 443
\* without a colon, and the first DNS result is used.
C7_ResolveHostRules ==
    Resolved =>
        IF parse_SocketAddr(args.host).ok
        THEN /\ hostname = <<args.host[1]>>
             /\ addr = parse_SocketAddr(args.host).value
             /\ dns_log = <<>>
        ELSE IF IsUrlWithHost(args.host)
        THEN /\ hostname = <<Url_parse(args.host).value.host>>
             /\ addr.port = IF Url_parse(args.host).value.port # 0
                            THEN Url_parse(args.host).value.port ELSE 443
             /\ FirstAddressUsed
        ELSE IF FirstColon(args.host) = 0
        THEN /\ hostname = args.host
             /\ addr.port = 443
             /\ FirstAddressUsed
        ELSE /\ hostname = BeforeFirstColon(args.host)
             /\ parse_u16(AfterFirstColon(args.host)).ok
             /\ addr.port = parse_u16(AfterFirstColon(args.host)).value
             /\ FirstAddressUsed

\* C7 (amended): as stated, but (b) the port is the URL's port, else the
\* known default of the URL's scheme (80 for http, 443 for https), else 443;
\* and (c) the host is the text before the first ':' and the port the text
\* between the first ':' and the second, whatever follows a second ':'.
C7_ResolveHostRulesAmended ==
    Resolved =>
        IF parse_SocketAddr(args.host).ok
        THEN /\ hostname = <<args.host[1]>>
             /\ addr = parse_SocketAddr(args.host).value
             /\ dns_log = <<>>
        ELSE IF IsUrlWithHost(args.host)
        THEN /\ hostname = <<Url_parse(args.host).value.host>>
             /\ addr.port =
                   IF Url_parse(args.host).value.port # 0
                   THEN Url_parse(args.host).value.port
                   ELSE IF Url_parse(args.host).value.scheme = "http" THEN 80
                   ELSE 443
             /\ FirstAddressUsed
        ELSE IF FirstColon(args.host) = 0
        THEN /\ hostname = args.host
             /\ addr.port = 443
             /\ FirstAddressUsed
        ELSE /\ hostname = BeforeFirstColon(args.host)
             /\ parse_u16(SecondSegment(args.host)).ok
             /\ addr.port = parse_u16(SecondSegment(args.host)).value
             /\ FirstAddressUsed

\* C7's case: a host with two colons, resolved through DNS.
C7_Witness ==
    /\ Resolved
    /\ args.host = <<"example.com", ":", "8443", ":", "9">>
    /\ addr = SockAddr("93.184.216.34", 8443)

IsFailure(e) == e.ev \in {"err", "panic"}

\* C8: a failure of a stage of the connection diagnostic ends the
\* invocation: nothing begins after it, no stage begins twice, and neither a
\* connection result nor a certificate is produced or written (a panic of
\* the certificates' normalization, after the handshake, writes nothing
\* either).
C8_FailureIsFatal ==
    command = "connect" =>
        /\ \A i \in 1..Len(trace) :
              IsFailure(trace[i]) =>
                 /\ i = Len(trace)
                 /\ inflight = {}
                 /\ stdout = <<>>
                 /\ certs = <<>>
                 /\ trace[i].op \in {"dns", "tcp", "configure", "tls"} =>
                       conn = NoConnection
        /\ \A i, j \in 1..Len(trace) :
              (i < j /\ trace[i].ev = "begin" /\ trace[j].ev = "begin")
              => trace[i].op # trace[j].op

\* C8's case: the TCP connect failed.
C8_Witness ==
    /\ pc = "failed"
    /\ trace # <<>>
    /\ trace[Len(trace)] = Ev("tcp", "err", "connect")

StageRank(op) ==
    CASE op = "dns" -> 1 [] op = "tcp" -> 2 [] op = "tls" -> 3
      [] op = "extract" -> 4 [] OTHER -> 0

StageOfRank(n) ==
    CASE n = 1 -> "dns" [] n = 2 -> "tcp" [] n = 3 -> "tls" [] OTHER -> "extract"

\* C9: the stages of the probe begin in the order DNS resolution, TCP
\* connect, TLS handshake, result extraction, each only after the one before
\* it has ended ok, and never are two of them in progress.
C9_SequentialStages ==
    command = "connect" =>
        /\ Cardinality(inflight) <= 1
        /\ \A j \in 1..Len(trace) :
              trace[j].ev = "begin" =>
                 /\ StageRank(trace[j].op) >= 1
                 /\ \A i \in 1..(j - 1) :
                       trace[i].ev = "begin" =>
                          StageRank(trace[i].op) < StageRank(trace[j].op)
                 /\ StageRank(trace[j].op) > 1 =>
                       \E i \in 1..(j - 1) :
                          trace[i] = Ev(StageOfRank(StageRank(trace[j].op) - 1),
                                        "ok", "")

\* C9's case: a probe that went through all four stages.
C9_Witness ==
    /\ command = "connect"
    /\ pc = "done"
    /\ Len(trace) = 7

\* C10: in WebPKI mode the connector does not verify the peer, so no handshake
\* fails for the chain's verification, and the outcome read after the
\* handshake is on the leaf: ok gives valid = true and no reason, an error
\* gives valid = false and the error as the reason.
C10_VerifyOutcomeClassifies ==
    (command = "connect" /\ ~args.rpk) =>
        /\ \A i \in 1..Len(trace) : trace[i].why # "certificate verify failed"
        /\ pc \in {"handshake", "handshaking", "extract", "done"} =>
              connector.verify = "NONE"
        /\ pc = "done" =>
              /\ certs # <<>>
              /\ IF tls.verify_result = "ok"
                 THEN /\ certs[1].valid = "true"
                      /\ certs[1].verify_result = "unset"
                 ELSE /\ certs[1].valid = "false"
                      /\ certs[1].verify_result = tls.verify_result

\* C10's case: a probe that completed on an expired chain.
C10_Witness ==
    /\ command = "connect"
    /\ pc = "done"
    /\ ~args.rpk
    /\ tls.verify_result = "certificate has expired"
    /\ certs # <<>>
    /\ certs[1].valid = "false"


\* C11: after a WebPKI probe that succeeded, chain mode gives one SimpleCert
\* per certificate the peer presented, in the peer's order, the leaf first;
\* without chain mode the result is the leaf alone. The certificates written
\* are these.
C11_ChainExtraction ==
    (command = "connect" /\ pc = "done" /\ ~args.rpk) =>
        /\ IF args.chain
           THEN /\ Len(certs) = Len(tls.chain)
                /\ \A i \in 1..Len(certs) : certs[i].obj = tls.chain[i]
           ELSE /\ Len(certs) = 1
                /\ certs[1].obj = tls.chain[1]
        /\ \A i \in 1..Len(certs) : certs[i].kind = "cert"
        /\ format \in {"Text", "Json"} =>
              /\ Len(stdout) = 1
              /\ stdout[1].ents = certs
        /\ format = "Pem" =>
              /\ Len(stdout) = Len(certs)
              /\ \A i \in 1..Len(certs) : stdout[i].ents = <<certs[i]>>

\* C11's case: chain mode against a peer that presented three certificates.
C11_Witness ==
    /\ command = "connect"
    /\ pc = "done"
    /\ args.chain
    /\ Len(tls.chain) = 3
    /\ Len(certs) = 3
    /\ certs[1].obj = tls.chain[1]


AllEntities(res) ==
    res.certs \o res.csrs \o res.public_keys \o res.private_keys

Unverified(e) == e.valid = "unset" /\ e.verify_result = "unset"

\* C12: valid and the verification failure reason are set by the live
\* verification of a probe alone: every entity of a parse path, in the result
\* and in the output, has both unset; of the certificates of a probe the
\* first has valid set and every other one has both unset.
C12_ValiditySetOnlyByProbe ==
    /\ command \in {"parse", "print_pems", "legacy_parse"} =>
          /\ \A i \in 1..Len(AllEntities(parse_result)) :
                Unverified(AllEntities(parse_result)[i])
          /\ \A i \in 1..Len(stdout) :
                \A k \in 1..Len(stdout[i].ents) : Unverified(stdout[i].ents[k])
    /\ command = "connect" =>
          /\ \A i \in 2..Len(certs) : Unverified(certs[i])
          /\ certs # <<>> => certs[1].valid \in {"true", "false"}

\* C12's case: a probe in chain mode, the leaf verified and the issuer's
\* certificate untouched.
C12_Witness ==
    /\ command = "connect"
    /\ pc = "done"
    /\ Len(certs) >= 2
    /\ certs[1].valid = "true"
    /\ Unverified(certs[2])

\* C13: in RPK mode the probe extracts no certificate and writes no
\* certificate data, with or without the chain flag and in every format: the
\* one thing written is the line that the connection was made.
C13_RpkNoCertificateData ==
    (command = "connect" /\ args.rpk) =>
        /\ certs = <<>>
        /\ \A i \in 1..Len(stdout) :
              /\ stdout[i].what = "connected"
              /\ stdout[i].ents = <<>>
        /\ pc # "panicked" \/ trace[Len(trace)].op = "dns"

\* C13's case: an RPK probe with the chain flag and the pem flag that
\* completed.
C13_Witness ==
    /\ command = "connect"
    /\ pc = "done"
    /\ args.rpk
    /\ args.chain
    /\ format = "Pem"
    /\ stdout = <<Item("plain", "connected", <<>>)>>


\* A group name that contains "Kyber" or "MLKEM".
NamesPqcGroup(name) ==
    \E i \in 1..Len(name) : name[i] = "Kyber" \/ name[i] = "MLKEM"

\* C14: isPqc of a Connection is true exactly when the name of the negotiated
\* group contains "Kyber" or "MLKEM": true for X25519Kyber768Draft00 and for
\* X25519MLKEM768, false for X25519 and for the empty name of an absent group.
C14_PqcDetection ==
    conn # NoConnection =>
        /\ conn.curve = tls.curve
        /\ conn.is_pqc <=> NamesPqcGroup(conn.curve)
        /\ conn.curve = <<"X25519", "Kyber", "768Draft00">> => conn.is_pqc
        /\ conn.curve = <<"X25519", "MLKEM", "768">> => conn.is_pqc
        /\ conn.curve = <<"X25519">> => ~conn.is_pqc
        /\ conn.curve = <<>> => ~conn.is_pqc

\* C14's case: a probe that negotiated X25519MLKEM768.
C14_Witness ==
    /\ pc = "done"
    /\ conn.curve = <<"X25519", "MLKEM", "768">>
    /\ conn.is_pqc

\* The groups of the force-PQC switch: X25519MLKEM768:X25519Kyber768Draft00.
FixedPqcPair ==
    << <<"X25519", "MLKEM", "768">>, <<"X25519", "Kyber", "768Draft00">> >>

\* C15: the curve list and the force-PQC switch never come together; a
\* configured connector has the fixed pair as its group list under force-PQC,
\* the curve list as given without it, and no group list when neither is
\* given, in WebPKI and in RPK mode alike; a list the library refuses leaves
\* no connector.
C15_CurveSelection ==
    command = "connect" =>
        /\ args.pqc => args.curves \in {<<>>, FixedPqcPair}
        /\ connector # NoConnector =>
              /\ connector.profile = (IF args.rpk THEN "rpk" ELSE "webpki")
              /\ connector.curves =
                    (IF args.pqc THEN FixedPqcPair ELSE args.curves)
        /\ \A i \in 1..Len(trace) :
              trace[i].op = "configure" =>
                 /\ connector = NoConnector
                 /\ ~args.pqc
                 /\ args.curves # <<>>

\* C15's case: force-PQC in RPK mode.
C15_Witness ==
    /\ command = "connect"
    /\ args.rpk
    /\ args.pqc
    /\ connector.curves = FixedPqcPair


-----------------------------------------------------------------------------
(* Properties of the PEM scanner *)

OneLine(b) == [b EXCEPT !.fill = Fill(<<>>, <<>>, <<>>)]

\* C16: whitespace (spaces, tabs, newlines, carriage returns, indentation)
\* and literal backslash-n sequences between the markers of a block do not
\* change what the scanner decodes: the block gives the DER bytes of its
\* base64 payload, the same as the block written on one line, and a payload
\* that is no base64 fails in every layout.
C16_WhitespaceInsensitive ==
    InParse =>
        \A i \in 1..Len(data.blocks) :
            LET b == data.blocks[i]
            IN  /\ extract_raw_pem(b).ok = extract_raw_pem(OneLine(b)).ok
                /\ extract_raw_pem(b).ok = b.payload.valid
                /\ extract_raw_pem(b).ok =>
                      /\ extract_raw_pem(b).value.data = b.payload.der
                      /\ extract_raw_pem(b).value.data
                            = extract_raw_pem(OneLine(b)).value.data
                      /\ extract_raw_pem(b).value.label = b.label

\* C16's case: a certificate block with carriage returns, tabs, spaces and
\* escaped newlines inside, decoded and in the result.
C16_Witness ==
    /\ command = "parse"
    /\ Len(data.blocks) = 1
    /\ data.blocks[1].fill.mid = <<" ", "\\n", "\t">>
    /\ Len(parse_result.certs) = 1

WellFormedCert(b) ==
    /\ b.label = "CERTIFICATE"
    /\ b.payload.valid
    /\ b.payload.der.enc = "x509"

\* C17: for a buffer of N well-formed CERTIFICATE blocks, in every layout,
\* the scanner and the classification give N certificates, block i giving
\* certificate i; the loop over them keeps that order: after k blocks the
\* result holds the certificates of blocks 1..k in this order and nothing
\* else, and at the end all N.
C17_CertificatesInBlockOrder ==
    (InParse /\ \A i \in 1..Len(data.blocks) : WellFormedCert(data.blocks[i])) =>
        /\ \A i \in 1..Len(data.blocks) :
              /\ Len(parse_pem_item(data.blocks[i])) = 1
              /\ parse_pem_item(data.blocks[i])[1].ok
              /\ parse_pem_item(data.blocks[i])[1].value.variant = "Cert"
              /\ parse_pem_item(data.blocks[i])[1].value.obj
                    = data.blocks[i].payload.der.obj
        /\ Len(parse_result.certs) = idx - 1
        /\ \A i \in 1..Len(parse_result.certs) :
              /\ parse_result.certs[i].kind = "cert"
              /\ parse_result.certs[i].obj = data.blocks[i].payload.der.obj
        /\ EntityCount(parse_result) = Len(parse_result.certs)
        /\ pc = "done" => Len(parse_result.certs) = Len(data.blocks)

\* C17's case: two certificates embedded with escaped newlines, both in the
\* result.
C17_Witness ==
    /\ command = "parse"
    /\ pc = "done"
    /\ Len(data.blocks) = 2
    /\ \A i \in 1..2 : WellFormedCert(data.blocks[i])
    /\ data.blocks[1].fill.mid = <<"\\n">>
    /\ Len(parse_result.certs) = 2

\* The decoder a label of the table selects, by the encodings it reads.
DecoderOf(label) ==
    CASE label = "CERTIFICATE" -> {"x509"}
      [] label = "CERTIFICATE REQUEST" -> {"x509req"}
      [] label = "PUBLIC KEY" -> {"spki"}
      [] label = "RSA PUBLIC KEY" -> {"pkcs1pub"}
      [] label = "RSA PRIVATE KEY" -> {"pkcs1priv"}
      [] label = "PRIVATE KEY" -> {"pkcs8", "pkcs1priv", "sec1"}
      [] label = "EC PRIVATE KEY" -> {"sec1"}

\* The ParsedPem variant a label of the table selects.
VariantOfLabel(label) ==
    CASE label = "CERTIFICATE" -> "Cert"
      [] label = "CERTIFICATE REQUEST" -> "CertReq"
      [] label = "PUBLIC KEY" -> "PublicKey"
      [] label = "RSA PUBLIC KEY" -> "RsaPublicKey"
      [] label = "RSA PRIVATE KEY" -> "RsaPrivateKey"
      [] label = "PRIVATE KEY" -> "PrivateKey"
      [] label = "EC PRIVATE KEY" -> "ECPrivateKey"

\* C18: the label of a block is compared as it stands with the seven labels
\* of the table: a label of the table selects the decoder of its kind and
\* nothing else decides the outcome but that decoder; any other label, one
\* in another letter case or with a space after it included, is Unknown: the
\* block fails for its label whatever its bytes are, and no entity comes of it.
C18_LabelMatchedVerbatim ==
    InParse =>
        /\ \A i \in 1..Len(data.blocks) :
              LET b == data.blocks[i]
                  raw == extract_raw_pem(b)
              IN  raw.ok =>
                    IF b.label \in RecognizedLabels
                    THEN /\ Pem_try_from(raw.value).ok
                               = (raw.value.data.enc \in DecoderOf(b.label))
                         /\ Pem_try_from(raw.value).ok =>
                               Pem_try_from(raw.value).value.variant
                                  = VariantOfLabel(b.label)
                         /\ ~Pem_try_from(raw.value).ok =>
                               Pem_try_from(raw.value).value = "der"
                    ELSE /\ ~Pem_try_from(raw.value).ok
                         /\ Pem_try_from(raw.value).value = "unknown label"
        /\ \A k \in 1..Len(AllEntities(parse_result)) :
              data.blocks[AllEntities(parse_result)[k].obj.id].label
                 \in RecognizedLabels

\* C18's case: a certificate under the label "CERTIFICATE " (a space after
\* it) left out, the certificate after it taken.
C18_Witness ==
    /\ command = "parse"
    /\ pc = "done"
    /\ Len(data.blocks) = 2
    /\ data.blocks[1].label = "CERTIFICATE "
    /\ data.blocks[1].payload.der.enc = "x509"
    /\ Len(parse_result.certs) = 1
    /\ parse_result.certs[1].obj.id = 2


-----------------------------------------------------------------------------
(* Properties of the error handling *)

\* C19: every fatal error of an invocation leaves run as an error value and
\* never as a panic: a failure of the host resolution (DNS failure, no
\* address, a port that is no number), of the TCP connect or of the TLS
\* handshake ends the command with the error returned, as a failure of
\* reading the input does; a run that reaches its end had no failure.
C19_ErrorsAreReturned ==
    /\ command = "connect" =>
          /\ \A i \in 1..Len(trace) :
                IsFailure(trace[i]) =>
                   /\ trace[i].ev = "err"
                   /\ pc = "failed"
          /\ pc = "done" => \A i \in 1..Len(trace) : ~IsFailure(trace[i])
    /\ (command = "parse" /\ data = NoBuffer) => pc \in {"failed", "done"}


-----------------------------------------------------------------------------
(* Properties of the key normalization *)

KeyAlgorithms == {"RSA", "DSA", "EC", "ED25519", "ED448"}

\* The KeyKind variant named after an algorithm.
KeyKindNamed(alg) ==
    CASE alg = "RSA" -> "RSA"
      [] alg = "DSA" -> "DSA"
      [] alg = "EC" -> "EC"
      [] alg = "ED25519" -> "Ed25519"
      [] alg = "ED448" -> "Ed448"

\* C20: the normalization of a key gives the KeyKind variant named after the
\* algorithm the library reports, for RSA, DSA, EC, Ed25519 and Ed448, for
\* public and for private keys (and for the key of a certificate or a CSR):
\* every normalized entity has the variant of its algorithm, and a run ends
\* by a panic of the normalization only on an algorithm outside the five.
C20_KeyKindByAlgorithm ==
    InParse =>
        /\ \A k \in 1..Len(AllEntities(parse_result)) :
              /\ AllEntities(parse_result)[k].obj.alg \in KeyAlgorithms
              /\ AllEntities(parse_result)[k].key
                    = KeyKindNamed(AllEntities(parse_result)[k].obj.alg)
        /\ ( /\ pc = "panicked"
             /\ \/ command = "print_pems"
                \/ data.blocks[idx].label
                      \in {"CERTIFICATE", "CERTIFICATE REQUEST"} )
           => data.blocks[idx].payload.der.obj.alg \notin KeyAlgorithms

-----------------------------------------------------------------------------
(* Properties of the normalization *)

\* The values of the entries of `stack` whose kind is `kind`, in the order of
\* the stack.
OfKind(stack, kind) ==
    LET kept == SelectSeq(stack, LAMBDA n : n.kind = kind)
    IN  [i \in 1..Len(kept) |-> kept[i].value]

\* C21: once the subject-alternative-name list of a certificate has been
\* normalized, every entry of it is in the sequence of its kind (dns, ip,
\* email, uri) and in no other, none is lost or doubled, and each sequence
\* holds its entries in the order of the source list; and the normalization
\* returns for every list: it never panics.
C21_SanPartition ==
    sans.status # "unset" =>
        /\ sans.status = "ok"
        /\ \A k \in {"dns", "ip", "email", "uri"} :
              sans.value[k] = OfKind(general_names, k)
        /\ Len(sans.value.dns) + Len(sans.value.ip) + Len(sans.value.email)
           + Len(sans.value.uri) = Len(general_names)

\* The DER bytes of the block an object was handed over in.
DerOf(o) == o.block.payload.der

CertObjects ==
    {o \in Objects : o.block.label = "CERTIFICATE" /\ Normalized(o).status = "ok"}

\* C22: the fingerprints of a normalized certificate are a function of its
\* DER bytes and of all of them: a certificate handed over in any layout, at
\* any position of its buffer and at any time has the same sha256, sha1 and
\* md5 values exactly when its DER bytes are the same.
C22_FingerprintsOfDer ==
    (normal.status = "ok" /\ normal.kind = "cert") =>
        \A o \in CertObjects :
            (DerOf(o) = DerOf(object))
            <=> (Normalized(o).fingerprints = normal.fingerprints)

\* C22's case: a certificate handed over indented and at the later time has
\* the fingerprints of the same certificate handed over in lines at the
\* earlier time, and another time to its expiry.
C22_Witness ==
    /\ normal.status = "ok"
    /\ normal.kind = "cert"
    /\ object.now = 2
    /\ object.block.fill # Lines
    /\ \E o \in CertObjects :
          /\ DerOf(o) = DerOf(object)
          /\ o.block.fill = Lines
          /\ o.now = 1
          /\ Normalized(o).fingerprints = normal.fingerprints
          /\ Normalized(o).expires_in # normal.expires_in

\* The number a text of lower-case hex digits denotes.
RECURSIVE HexNumber(_)
HexNumber(text) ==
    IF text = <<>> THEN 0
    ELSE 16 * HexNumber(SubSeq(text, 1, Len(text) - 1))
         + (CHOOSE k \in 0..15 : HexDigits[k + 1] = text[Len(text)])

\* The number big-endian bytes denote.
RECURSIVE RawNumber(_)
RawNumber(bytes) ==
    IF bytes = <<>> THEN 0
    ELSE 256 * RawNumber(SubSeq(bytes, 1, Len(bytes) - 1)) + bytes[Len(bytes)]

\* C26: every hex field of a normalized certificate, CSR or key is its raw
\* value encoded once: its text holds lower-case hex digits only, and read as
\* hex digits it denotes the number the raw bytes denote.
C26_OneHexEncoding ==
    normal.status = "ok" =>
        \A i \in 1..Len(normal.hex) :
            /\ \A j \in 1..Len(normal.hex[i].text) :
                  \E k \in 1..16 : HexDigits[k] = normal.hex[i].text[j]
            /\ HexNumber(normal.hex[i].text) = RawNumber(normal.hex[i].raw)

-----------------------------------------------------------------------------
(* Properties of the output *)

\* C23: in JSON mode the parse command writes one document, an object whose
\* fields certs and csrs are arrays holding the entities of the kind, also for
\* one entity and for none: a single certificate is a one-element array.
C23_JsonArrays ==
    ( /\ command = "parse"
      /\ format = "Json"
      /\ pc = "done"
      /\ data # NoBuffer )
    => /\ Len(stdout) = 1
       /\ stdout[1].fmt = "json"
       /\ stdout[1].doc.type = "object"
       /\ \A kind \in {"certs", "csrs"} :
             /\ stdout[1].doc.members[kind].type = "array"
             /\ stdout[1].doc.members[kind].members = parse_result[kind]

\* C23's case: one certificate and no CSR, written in JSON mode.
C23_Witness ==
    /\ command = "parse"
    /\ format = "Json"
    /\ pc = "done"
    /\ Len(parse_result.certs) = 1
    /\ parse_result.csrs = <<>>
    /\ Len(stdout) = 1
    /\ stdout[1].doc.members.certs = Json_vec(parse_result.certs)

\* C24: the negotiated format governs every write to standard output of the
\* parse and connect commands, on every path: in Json mode nothing other than
\* JSON documents is written to standard output.
C24_FormatGovernsStdout ==
    (command \in {"parse", "connect"} /\ format = "Json")
    => \A i \in 1..Len(stdout) : stdout[i].fmt = "json"

\* C25: in the parse command every block the loop has gone past and that
\* failed (base64, label or DER) has an entry in the log that names it: no
\* failed block is skipped silently.
C25_FailedBlocksLogged ==
    InParse =>
        \A i \in 1..Len(data.blocks) :
            (i < idx /\ ~BlockDecodes(data.blocks[i]))
            => \E k \in 1..Len(log) : log[k].block = i

\* The normalized entities an invocation holds: the certificates of the
\* connection, the result of the parse loop, and what was written out.
HeldEntities ==
    {certs[i] : i \in 1..Len(certs)}
    \cup UNION {{parse_result[k][i] : i \in 1..Len(parse_result[k])} :
                   k \in DOMAIN parse_result}
    \cup UNION {{stdout[j].ents[i] : i \in 1..Len(stdout[j].ents)} :
                   j \in 1..Len(stdout)}

\* C28: in every state a normalized certificate has its verification failure
\* reason set exactly when its valid field is false; valid = true and valid
\* unset go with an unset reason.
C28_ReasonIffInvalid ==
    \A e \in HeldEntities :
        /\ e.valid \in {"unset", "true", "false"}
        /\ (e.verify_result # "unset") <=> (e.valid = "false")

\* C28's case: the verification of a handshake failed, its result was applied
\* to the leaf, and the leaf was written out with the reason.
C28_Witness ==
    /\ command = "connect"
    /\ pc = "done"
    /\ tls.verify_result # "ok"
    /\ certs # <<>>
    /\ certs[1].valid = "false"
    /\ certs[1].verify_result = tls.verify_result
    /\ \E j \in 1..Len(stdout) :
          stdout[j].ents # <<>> /\ stdout[j].ents[1] = certs[1]

\* C30: the earlier output selection writes exactly one output for every
\* combination of the flags json and text and of the terminal state, so its
\* branch "No output format specified" is never taken, and it writes JSON
\* exactly when Format::from_args(text, json, false) is Json and text
\* otherwise; a completed run of the earlier parse command has written the
\* output so selected.
C30_LegacySelection ==
    /\ \A json \in BOOLEAN, text \in BOOLEAN, is_terminal \in BOOLEAN :
          LET out == legacy_output(parse_result.certs, json, text, is_terminal)
          IN  /\ Len(out) = 1
              /\ out[1].ents = parse_result.certs
              /\ out[1].fmt =
                    IF Format_from_args(text, json, FALSE, is_terminal) = "Json"
                    THEN "json" ELSE "text"
    /\ (command = "legacy_parse" /\ pc = "done")
       => /\ Len(stdout) = 1
          /\ stdout[1].fmt =
                IF Format_from_args(cli.text, cli.json, FALSE, tty) = "Json"
                THEN "json" ELSE "text"

\* C30's case: no flag on a terminal, where print_text is true through the
\* terminal state alone; the certificates were written as text.
C30_Witness ==
    /\ command = "legacy_parse"
    /\ pc = "done"
    /\ ~cli.json /\ ~cli.text /\ tty
    /\ parse_result.certs # <<>>
    /\ stdout = <<Item("text", "certs", parse_result.certs)>>

-----------------------------------------------------------------------------
(* Properties of the scanners *)

\* A well-formed block starts at offset p: the BEGIN marker, n payload buffer
\* and the END marker.
WellFormedAt(buf, p, n) ==
    /\ n >= 1
    /\ p + Len(BEGIN_MARKER) + n + Len(END_MARKER) <= Len(buf)
    /\ SubSeq(buf, p + 1, p + Len(BEGIN_MARKER) + n + Len(END_MARKER))
         = BEGIN_MARKER \o [i \in 1..n |-> "x"] \o END_MARKER

\* C27: the scanner emits every well-formed block of the buffer as a block of
\* its own, with the block's span, label and payload, also behind a BEGIN
\* marker that has no END marker of its own; and the spans of the emitted
\* blocks are disjoint and increasing.
C27_EveryWellFormedBlockEmitted ==
    raw_pems.status = "done" =>
        /\ \A p \in 0..Len(buffer), n \in 1..Len(buffer) :
              WellFormedAt(buffer, p, n)
              => \E i \in 1..Len(raw_pems.items) :
                    /\ raw_pems.items[i].ok
                    /\ raw_pems.items[i].span
                         = <<p, p + Len(BEGIN_MARKER) + n + Len(END_MARKER)>>
                    /\ raw_pems.items[i].label = <<"C">>
                    /\ raw_pems.items[i].data = [c \in 1..n |-> "x"]
        /\ \A i \in 1..Len(raw_pems.items), l \in 1..Len(raw_pems.items) :
              (i < l /\ raw_pems.items[i].ok /\ raw_pems.items[l].ok)
              => raw_pems.items[i].span[2] <= raw_pems.items[l].span[1]

\* C29: every slice the two earlier parse_pem take of a buffer lies within
\* the buffer, also for a buffer that ends at the last byte of an END marker
\* and for a BEGIN marker directly followed by an END marker; and every
\* boundary starts at a BEGIN marker and ends one past the first END marker
\* at or after its start.
C29_SlicesWithinBuffer ==
    \A r \in {old_slices, new_slices} :
        r.status # "unset" =>
            /\ r.status = "done"
            /\ \A i \in 1..Len(r.slices) : r.slices[i].ok
            /\ \A i \in 1..Len(r.boundaries) :
                  LET begin == r.boundaries[i][1]
                      end == r.boundaries[i][2]
                  IN  /\ find_from(buffer, BEGIN_MARKER, begin) = begin
                      /\ find_from(buffer, END_MARKER, begin)
                           = end - Len(END_MARKER)
                      /\ end <= Len(buffer)

====
